---- MODULE Spec2Model ----
(***************************************************************************)
(* OriMania: convention enumeration and codecs, pairwise relative          *)
(* orientations, and the convention search (one-sided and two-sided).      *)
(***************************************************************************)
EXTENDS Integers, Sequences, FiniteSets, TLC

VARIABLES
    \* ---- convention codecs (Convention.cpp) ----
    cpc,        \* position in the codec pipeline
    ndx,        \* index into Convention::allConventions() of the input
    conv,       \* the input Convention
    numId,      \* conv.numberEncoding()
    conNum,     \* Convention::fromNumberEncoding(numId)
    conStr,     \* ConventionString::from(conv)
    conBack,    \* conStr.convention()
    \* ---- relative orientations (Orientation.hpp) ----
    rpc,        \* position in the relative orientation run
    boxKeyOris, \* sensor orientations in the box frame
    xfm,        \* oriBoxWrtRef, the common outer transform
    indKeyOris, \* independentKeyOris(boxKeyOris, xfm)
    boxRos,     \* relativeOrientationBetweens(boxKeyOris)
    indRos,     \* relativeOrientationBetweens(indKeyOris)
    \* ---- one-sided search (Analysis.hpp) ----
    fpc,        \* position in the search run
    simGroups,  \* ParmGroups of the simulated payload
    keyGroups,  \* ParmGroups given to the search
    allCons,    \* candidate conventions
    cStar,      \* index (from 1) in allCons of the generating convention
    xfmBoxWrtRef, \* outer transform of the simulation
    keyIndEOs,  \* independent exterior orientations
    fitIndexPairs, \* result of fitIndexPairsFor, later sorted in place
    \* ---- two-sided search (OriAnalysis2.cpp) ----
    mpc,        \* position in main
    boxPGs,     \* ParmGroups of the box frame
    indPGs,     \* ParmGroups of the independent frame
    boxConAngs, \* angle conventions tried for the box frame
    indConAngs, \* angle conventions tried for the independent frame
    boxConOris, \* conventionOrientationsFor(box)
    indConOris, \* conventionOrientationsFor(ind)
    boxConROs,  \* conventionROsWrtUseKey(boxConOris, useSenKey)
    indConROs,  \* conventionROsWrtUseKey(indConOris, useSenKey)
    useSenKeys, \* common sensors without the base sensor
    maxErrPairCons \* one (error, (box id, ind id)) per pair of conventions

VARIABLES
    tpc,            \* position in the trial result run
    trialPairs,     \* fitIndexPairs given to trialResultFrom
    currIndCon,     \* currIndCon given to trialResultFrom
    fitNdxs,        \* the sorted copy inside trialResultFrom
    trialResult,    \* OneTrialResult returned by trialResultFrom
    prom            \* trialResult.prominence()

convVars == <<cpc, ndx, conv, numId, conNum, conStr, conBack>>

roVars == <<rpc, boxKeyOris, xfm, indKeyOris, boxRos, indRos>>

fitVars == <<fpc, simGroups, keyGroups, allCons, cStar, xfmBoxWrtRef,
             keyIndEOs, fitIndexPairs>>

maxVars == <<mpc, boxPGs, indPGs, boxConAngs, indConAngs, boxConOris,
             indConOris, boxConROs, indConROs, useSenKeys, maxErrPairCons>>

VARIABLES
    xpc,            \* position in the transform run
    xfmPG,          \* the ParmGroup
    conA,           \* a convention
    conB,           \* another convention
    xfmA,           \* conA.transformFor(xfmPG)
    xfmB,           \* conB.transformFor(xfmPG)
    attNet,         \* conA.attitudeFor(xfmPG)
    xfmConOris      \* conventionOrientationPairsFor for the parts of conA

VARIABLES
    ipc,            \* position in the load run
    loader,         \* the loading function that runs
    lines,          \* the lines the stream has delivered so far
    lineNo,         \* number of the next line to read
    ioKeyword,      \* keyword (kept from record to record)
    ioSenKey,       \* senKey (kept from record to record)
    ioSenKeys,      \* senKeys
    keyConventions, \* Convention by sensor key
    keyDistances,   \* ThreeDistances by sensor key
    keyAngles,      \* ThreeAngles by sensor key
    ioPGs,          \* pgs returned by loadParmGroups
    ioOris          \* indOris returned by loadOrientations / loadIndEOs

VARIABLES
    apc,            \* position in main
    app,            \* the program that runs
    argc,           \* number of command line words
    boxFile,        \* the file named by the first path
    indFile,        \* the file named by the second path
    appBoxPGs,      \* boxPGs (keyBoxPGs) loaded from the first file
    appIndPGs,      \* indPGs (keyIndPGs) loaded from the second file
    appUseKey,      \* useSenKey
    appBoxOris,     \* boxConOris
    appIndOris,     \* indConOris
    appBoxROs,      \* boxConROs
    appIndROs,      \* indConROs
    appResult,      \* the search result (maxErrPairCons, fitIndexPairs)
    appCalls,       \* the functions main has called so far
    exitCode,       \* the value main returns or hands to exit()
    diag            \* the messages written to std::cerr

VARIABLES
    qpc,            \* position in the call
    callFn,         \* the function that is called
    callArgs,       \* its arguments
    callResult      \* the value it returns

trialVars == <<tpc, trialPairs, currIndCon, fitNdxs, trialResult, prom>>

callVars == <<qpc, callFn, callArgs, callResult>>

appVars == <<apc, app, argc, boxFile, indFile, appBoxPGs, appIndPGs,
             appUseKey, appBoxOris, appIndOris, appBoxROs, appIndROs,
             appResult, appCalls, exitCode, diag>>

ioVars == <<ipc, loader, lines, lineNo, ioKeyword, ioSenKey, ioSenKeys,
            keyConventions, keyDistances, keyAngles, ioPGs, ioOris>>

xfmVars == <<xpc, xfmPG, conA, conB, xfmA, xfmB, attNet, xfmConOris>>

restVars == <<trialVars, xfmVars, ioVars, appVars, callVars>>

coreVars == <<convVars, roVars, fitVars, maxVars>>

vars == <<coreVars, restVars>>

----------------------------------------------------------------------------
\* enum OrderTR
TranRot == 0
RotTran == 1
Unknown == 2

\* value of a field that has not been computed yet
None == [none |-> TRUE]

\* the parts of the state a run does not use
ConvIdle ==
    /\ cpc = "idle"
    /\ ndx = 0
    /\ conv = None
    /\ numId = None
    /\ conNum = None
    /\ conStr = None
    /\ conBack = None

RoIdle ==
    /\ rpc = "idle"
    /\ boxKeyOris = None
    /\ xfm = None
    /\ indKeyOris = None
    /\ boxRos = None
    /\ indRos = None

FitIdle ==
    /\ fpc = "idle"
    /\ simGroups = None
    /\ keyGroups = None
    /\ allCons = None
    /\ cStar = 0
    /\ xfmBoxWrtRef = None
    /\ keyIndEOs = None
    /\ fitIndexPairs = None

MaxIdle ==
    /\ mpc = "idle"
    /\ boxPGs = None
    /\ indPGs = None
    /\ boxConAngs = None
    /\ indConAngs = None
    /\ boxConOris = None
    /\ indConOris = None
    /\ boxConROs = None
    /\ indConROs = None
    /\ useSenKeys = None
    /\ maxErrPairCons = None

TrialIdle ==
    /\ tpc = "idle"
    /\ trialPairs = None
    /\ currIndCon = None
    /\ fitNdxs = None
    /\ trialResult = None
    /\ prom = None

XfmIdle ==
    /\ xpc = "idle"
    /\ xfmPG = None
    /\ conA = None
    /\ conB = None
    /\ xfmA = None
    /\ xfmB = None
    /\ attNet = None
    /\ xfmConOris = None

IoIdle ==
    /\ ipc = "idle"
    /\ loader = None
    /\ lines = None
    /\ lineNo = None
    /\ ioKeyword = None
    /\ ioSenKey = None
    /\ ioSenKeys = None
    /\ keyConventions = None
    /\ keyDistances = None
    /\ keyAngles = None
    /\ ioPGs = None
    /\ ioOris = None

AppIdle ==
    /\ apc = "idle"
    /\ app = None
    /\ argc = None
    /\ boxFile = None
    /\ indFile = None
    /\ appBoxPGs = None
    /\ appIndPGs = None
    /\ appUseKey = None
    /\ appBoxOris = None
    /\ appIndOris = None
    /\ appBoxROs = None
    /\ appIndROs = None
    /\ appResult = None
    /\ appCalls = None
    /\ exitCode = None
    /\ diag = None

CallIdle ==
    /\ qpc = "idle"
    /\ callFn = None
    /\ callArgs = None
    /\ callResult = None

RestIdle == TrialIdle /\ XfmIdle /\ IoIdle /\ AppIdle /\ CallIdle

CoreIdle == ConvIdle /\ RoIdle /\ FitIdle /\ MaxIdle

----------------------------------------------------------------------------
\* ParmGroup.cpp: enumerations of the convention characteristics

allThreeSigns ==
    << <<-1, -1, -1>>, <<-1, -1, 1>>, <<-1, 1, -1>>, <<-1, 1, 1>>
     , << 1, -1, -1>>, << 1, -1, 1>>, << 1, 1, -1>>, << 1, 1, 1>> >>

allThreeIndices ==
    << <<0, 1, 2>>, <<0, 2, 1>>, <<1, 0, 2>>
     , <<1, 2, 0>>, <<2, 1, 0>>, <<2, 0, 1>> >>

\* twelve entries, one of them written twice
allBivIndicesRepeated ==
    << <<0, 1, 0>>, <<0, 1, 2>>, <<0, 2, 0>>, <<0, 2, 1>>
     , <<1, 0, 1>>, <<1, 0, 2>>, <<1, 2, 0>>, <<1, 2, 1>>
     , <<2, 0, 1>>, <<2, 0, 2>>, <<2, 1, 0>>, <<2, 1, 0>> >>

allBivIndices ==
    << <<0, 1, 0>>, <<0, 1, 2>>, <<0, 2, 0>>, <<0, 2, 1>>
     , <<1, 0, 1>>, <<1, 0, 2>>, <<1, 2, 0>>, <<1, 2, 1>>
     , <<2, 0, 1>>, <<2, 0, 2>>, <<2, 1, 0>>, <<2, 1, 2>> >>

allOrderTRs == <<TranRot, RotTran>>

----------------------------------------------------------------------------
\* Convention.cpp: numeric encodings

\* std::int64_t values are kept as sign and base-100 magnitude, least
\* significant pair of decimal digits first (TLC integers are 32 bit wide)
sIdBase == 100

RECURSIVE CarryFrom(_, _)
CarryFrom(limbs, carry) ==
    IF limbs = <<>>
    THEN IF carry = 0 THEN <<>>
         ELSE <<carry % sIdBase>> \o CarryFrom(<<>>, carry \div sIdBase)
    ELSE LET t == Head(limbs) + carry
         IN  <<t % sIdBase>> \o CarryFrom(Tail(limbs), t \div sIdBase)

RECURSIVE StripZeros(_)
StripZeros(limbs) ==
    IF limbs = <<>> THEN <<>>
    ELSE IF limbs[Len(limbs)] = 0
         THEN StripZeros(SubSeq(limbs, 1, Len(limbs) - 1))
         ELSE limbs

Int64(limbs) == [neg |-> FALSE, mag |-> StripZeros(CarryFrom(limbs, 0))]

Int64MinusOne == [neg |-> TRUE, mag |-> <<1>>]

LimbAt(a, k) == IF k <= Len(a.mag) THEN a.mag[k] ELSE 0

\* a + b and a * n for non-negative a, b and a small non-negative n
Int64Add(a, b) ==
    LET len == IF Len(a.mag) > Len(b.mag) THEN Len(a.mag) ELSE Len(b.mag)
    IN  Int64([k \in 1..len |-> LimbAt(a, k) + LimbAt(b, k)])

Int64Mul(a, n) == Int64([k \in 1..Len(a.mag) |-> a.mag[k] * n])

\* curr % sIdBase and curr / sIdBase for non-negative curr
Int64ModBase(a) == LimbAt(a, 1)
Int64DivBase(a) == [neg |-> FALSE, mag |-> IF a.mag = <<>> THEN <<>> ELSE Tail(a.mag)]

\* a < b for non-negative a and b
Int64Less(a, b) ==
    \/ Len(a.mag) < Len(b.mag)
    \/ /\ Len(a.mag) = Len(b.mag)
       /\ \E k \in 1..Len(a.mag) :
             /\ a.mag[k] < b.mag[k]
             /\ \A j \in (k + 1)..Len(a.mag) : a.mag[j] = b.mag[j]

sPad    == Int64(<<0, 0, 0, 0, 0, 0, 1>>)
sOffSgn == Int64(<<0, 0, 0, 0, 0, 1>>)
sOffNdx == Int64(<<0, 0, 0, 0, 1>>)
sAngSgn == Int64(<<0, 0, 0, 1>>)
sAngNdx == Int64(<<0, 0, 1>>)
sBivNdx == Int64(<<0, 1>>)
sOrder  == Int64(<<1>>)

\* static_cast<std::int64_t>(1u + sign) / 2u: the int8 is promoted and
\* converted to unsigned (32 bit), so 1u + (-1) wraps to 0 and a sign below
\* -1 wraps to 2^32 + 1 + sign
HalfOfOnePlus(sign) ==
    IF sign >= -1
    THEN (1 + sign) \div 2
    ELSE 2147483647 + (1 + ((1 + sign) \div 2))

numberForOrder(order) == order

numberForSigns(signs) ==
      4 * HalfOfOnePlus(signs[1])
    + 2 * HalfOfOnePlus(signs[2])
    + 1 * HalfOfOnePlus(signs[3])

numberForIndices(indices) ==
    9 * indices[1] + 3 * indices[2] + 1 * indices[3]

\* lookup tables of the decoder (0-based numId, 1-based sequence)
threeSignsTable ==
    << <<-1, -1, -1>>, <<-1, -1, 1>>, <<-1, 1, -1>>, <<-1, 1, 1>>
     , << 1, -1, -1>>, << 1, -1, 1>>, << 1, 1, -1>>, << 1, 1, 1>> >>

threeSignsFor(id) == threeSignsTable[id + 1]

threeIndicesFor(id) ==
    << id \div 9, (id \div 3) % 3, id % 3 >>

orderTable == <<TranRot, RotTran, Unknown>>

orderFor(id) == orderTable[id + 1]

----------------------------------------------------------------------------
\* Convention, ConventionOffset, ConventionAngle

ConventionOffset(offSigns, offIndices) ==
    [theOffSigns |-> offSigns, theOffIndices |-> offIndices]

ConventionAngle(angSigns, angIndices, bivIndices) ==
    [theAngSigns |-> angSigns, theAngIndices |-> angIndices,
     theBivIndices |-> bivIndices]

Convention(convOff, convAng, order) ==
    [theConvOff |-> convOff, theConvAng |-> convAng, theOrder |-> order]

\* six-argument form used by fromNumberEncoding and by the simulation
Convention6(offSigns, offIndices, angSigns, angIndices, bivIndices, order) ==
    Convention(ConventionOffset(offSigns, offIndices),
               ConventionAngle(angSigns, angIndices, bivIndices), order)

\* ConventionOffset::allConventions: signs outer, indices inner
ConventionOffset_allConventions ==
    LET locSigns == allThreeSigns
        locNdxs  == allThreeIndices
        nNdx     == Len(locNdxs)
    IN  [n \in 1..(Len(locSigns) * nNdx) |->
            ConventionOffset(locSigns[((n - 1) \div nNdx) + 1],
                             locNdxs[((n - 1) % nNdx) + 1])]

\* ConventionAngle::allConventions: signs outer, indices, bivector inner
ConventionAngle_allConventions ==
    LET attSigns == allThreeSigns
        attNdxs  == allThreeIndices
        bivNdxs  == allBivIndices
        nNdx     == Len(attNdxs)
        nBiv     == Len(bivNdxs)
    IN  [n \in 1..(Len(attSigns) * nNdx * nBiv) |->
            ConventionAngle(attSigns[((n - 1) \div (nNdx * nBiv)) + 1],
                            attNdxs[(((n - 1) \div nBiv) % nNdx) + 1],
                            bivNdxs[((n - 1) % nBiv) + 1])]

\* Convention::allConventionsFor: angle conventions outer, order inner
allConventionsFor(offConv) ==
    LET angConvs == ConventionAngle_allConventions
        orders   == allOrderTRs
        nOrd     == Len(orders)
    IN  [n \in 1..(Len(angConvs) * nOrd) |->
            Convention(offConv, angConvs[((n - 1) \div nOrd) + 1],
                       orders[((n - 1) % nOrd) + 1])]

\* the nesting of the header revision: angle signs and indices outermost,
\* then the offset, then the bivector indices, then the order
allConventionsHeaderOrder ==
    LET nS == Len(allThreeSigns)
        nI == Len(allThreeIndices)
        nB == Len(allBivIndices)
        nO == Len(allOrderTRs)
    IN  [n \in 1..(nS * nI * nS * nI * nB * nO) |->
            Convention6(
                allThreeSigns[(((n - 1) \div (nI * nB * nO)) % nS) + 1],
                allThreeIndices[(((n - 1) \div (nB * nO)) % nI) + 1],
                allThreeSigns[((n - 1) \div (nI * nS * nI * nB * nO)) + 1],
                allThreeIndices[(((n - 1) \div (nS * nI * nB * nO)) % nI) + 1],
                allBivIndices[(((n - 1) \div nO) % nB) + 1],
                allOrderTRs[((n - 1) % nO) + 1])]

\* Convention::allConventions: offsets outermost, each followed by the
\* whole of allConventionsFor(offConv)
Convention_allConventions ==
    LET offConvs == ConventionOffset_allConventions
        perOff   == Len(allConventionsFor(offConvs[1]))
    IN  [n \in 1..(Len(offConvs) * perOff) |->
            allConventionsFor(offConvs[((n - 1) \div perOff) + 1])
                [((n - 1) % perOff) + 1]]

\* Convention::isValid
isValid(c) == Unknown # c.theOrder

\* encoding without the leading pad digit
numberEncodingNoPad(c) ==
    IF isValid(c)
    THEN Int64Add(Int64Mul(sOffSgn, numberForSigns(c.theConvOff.theOffSigns)),
         Int64Add(Int64Mul(sOffNdx, numberForIndices(c.theConvOff.theOffIndices)),
         Int64Add(Int64Mul(sAngSgn, numberForSigns(c.theConvAng.theAngSigns)),
         Int64Add(Int64Mul(sAngNdx, numberForIndices(c.theConvAng.theAngIndices)),
         Int64Add(Int64Mul(sBivNdx, numberForIndices(c.theConvAng.theBivIndices)),
                  Int64Mul(sOrder, numberForOrder(c.theOrder)))))))
    ELSE Int64MinusOne

\* Convention::numberEncoding
numberEncoding(c) ==
    IF isValid(c)
    THEN Int64Add(sPad,
         Int64Add(Int64Mul(sOffSgn, numberForSigns(c.theConvOff.theOffSigns)),
         Int64Add(Int64Mul(sOffNdx, numberForIndices(c.theConvOff.theOffIndices)),
         Int64Add(Int64Mul(sAngSgn, numberForSigns(c.theConvAng.theAngSigns)),
         Int64Add(Int64Mul(sAngNdx, numberForIndices(c.theConvAng.theAngIndices)),
         Int64Add(Int64Mul(sBivNdx, numberForIndices(c.theConvAng.theBivIndices)),
                  Int64Mul(sOrder, numberForOrder(c.theOrder))))))))
    ELSE Int64MinusOne

\* decoder that reads the angle-index digits where the bivector digits are
fromNumberEncodingBivSlip(id) ==
    LET digOrder  == Int64ModBase(id)
        c1        == Int64DivBase(id)
        digBivNdx == Int64ModBase(c1)
        c2        == Int64DivBase(c1)
        digAngNdx == Int64ModBase(c2)
        c3        == Int64DivBase(c2)
        digAngSgn == Int64ModBase(c3)
        c4        == Int64DivBase(c3)
        digOffNdx == Int64ModBase(c4)
        c5        == Int64DivBase(c4)
        digOffSgn == Int64ModBase(c5)
    IN  Convention6(threeSignsFor(digOffSgn), threeIndicesFor(digOffNdx),
                    threeSignsFor(digAngSgn), threeIndicesFor(digAngNdx),
                    threeIndicesFor(digAngNdx), orderFor(digOrder))

\* Convention::fromNumberEncoding
fromNumberEncoding(id) ==
    LET digOrder  == Int64ModBase(id)
        c1        == Int64DivBase(id)
        digBivNdx == Int64ModBase(c1)
        c2        == Int64DivBase(c1)
        digAngNdx == Int64ModBase(c2)
        c3        == Int64DivBase(c2)
        digAngSgn == Int64ModBase(c3)
        c4        == Int64DivBase(c3)
        digOffNdx == Int64ModBase(c4)
        c5        == Int64DivBase(c4)
        digOffSgn == Int64ModBase(c5)
    IN  Convention6(threeSignsFor(digOffSgn), threeIndicesFor(digOffNdx),
                    threeSignsFor(digAngSgn), threeIndicesFor(digAngNdx),
                    threeIndicesFor(digBivNdx), orderFor(digOrder))

----------------------------------------------------------------------------
\* ParmGroup.cpp: string encodings (a string is a sequence of characters)

pmCharFor(aByte) == IF aByte < 0 THEN "-" ELSE "+"

digitChars == <<"0", "1", "2", "3", "4", "5", "6", "7", "8", "9">>

stringFromSigns(signInts) ==
    << pmCharFor(signInts[1]), pmCharFor(signInts[2]), pmCharFor(signInts[3]) >>

\* single decimal digits only: the values printed here are below 10
stringFromIndices(ndxInts) ==
    << digitChars[ndxInts[1] + 1], digitChars[ndxInts[2] + 1],
       digitChars[ndxInts[3] + 1] >>

stringFromOrder(order) == << digitChars[order + 1] >>

\* outcomes of converting a null (NaN) double into the int8 of a ThreeSigns
NullSignOutcomes == {0, -128, 127}

\* priv::signFrom, then the narrowing into std::int8_t
signFrom(aChar, nullSign) ==
    IF aChar = "-" THEN -1 ELSE IF aChar = "+" THEN 1 ELSE nullSign

indexFrom(aChar) ==
    IF aChar = "0" THEN 0
    ELSE IF aChar = "1" THEN 1
    ELSE IF aChar = "2" THEN 2
    ELSE 255

threeSignsFrom(str, nullSign) ==
    IF Len(str) = 3
    THEN << signFrom(str[1], nullSign), signFrom(str[2], nullSign),
            signFrom(str[3], nullSign) >>
    ELSE << -128, -128, -128 >>

threeIndicesFrom(str) ==
    IF Len(str) = 3
    THEN << indexFrom(str[1]), indexFrom(str[2]), indexFrom(str[3]) >>
    ELSE << 255, 255, 255 >>

orderTRFrom(str) ==
    IF Len(str) = 1
    THEN IF str[1] = "0" THEN TranRot
         ELSE IF str[1] = "1" THEN RotTran
         ELSE Unknown
    ELSE Unknown

----------------------------------------------------------------------------
\* Convention.cpp: ConventionString

\* aggregate initialisation in member order
ConventionString(s1, s2, s3, s4, s5, s6) ==
    [theStrOffSigns |-> s1, theStrOffNdxs |-> s2,
     theStrAngSigns |-> s3, theStrAngNdxs |-> s4,
     theStrBivNdxs  |-> s5, theStrOrder   |-> s6]

\* a from() that writes each sub-convention into its own tokens
ConventionString_fromStraight(c) ==
    ConventionString(
        stringFromSigns(c.theConvOff.theOffSigns),
        stringFromIndices(c.theConvOff.theOffIndices),
        stringFromSigns(c.theConvAng.theAngSigns),
        stringFromIndices(c.theConvAng.theAngIndices),
        stringFromIndices(c.theConvAng.theBivIndices),
        stringFromOrder(c.theOrder))

\* ConventionString::from(Convention)
ConventionString_from(c) ==
    LET strOffSigns == stringFromSigns(c.theConvAng.theAngSigns)
        strOffNdxs  == stringFromIndices(c.theConvAng.theAngIndices)
        strAngSigns == stringFromSigns(c.theConvOff.theOffSigns)
        strAngNdxs  == stringFromIndices(c.theConvOff.theOffIndices)
        strBivNdxs  == stringFromIndices(c.theConvAng.theBivIndices)
        strOrder    == stringFromOrder(c.theOrder)
    IN  ConventionString(strOffSigns, strOffNdxs, strAngSigns, strAngNdxs,
                         strBivNdxs, strOrder)

conventionOffset(cs, nullSign) ==
    ConventionOffset(threeSignsFrom(cs.theStrOffSigns, nullSign),
                     threeIndicesFrom(cs.theStrOffNdxs))

conventionAngle(cs, nullSign) ==
    ConventionAngle(threeSignsFrom(cs.theStrAngSigns, nullSign),
                    threeIndicesFrom(cs.theStrAngNdxs),
                    threeIndicesFrom(cs.theStrBivNdxs))

\* the narrowed null values conventionOffset / conventionAngle can read:
\* one is read only for a sign character other than '+' and '-'
NullSignsRead(cs) ==
    IF \E str \in {cs.theStrOffSigns, cs.theStrAngSigns} :
          /\ Len(str) = 3
          /\ \E k \in 1..3 : str[k] \notin {"+", "-"}
    THEN NullSignOutcomes
    ELSE {0}

\* ConventionString::convention
convention(cs, nullSign) ==
    Convention(conventionOffset(cs, nullSign), conventionAngle(cs, nullSign),
               orderTRFrom(cs.theStrOrder))

----------------------------------------------------------------------------
\* Codec pipeline: one Convention is taken from the enumeration (or given an
\* Unknown order), encoded as number and string, and decoded again.

NumConventions == Len(Convention_allConventions)

ConvInit ==
    /\ ndx \in 1..NumConventions
    /\ \E unk \in BOOLEAN :
          /\ unk => /\ Convention_allConventions[ndx].theOrder = TranRot
                    /\ Convention_allConventions[ndx].theConvAng =
                           ConventionAngle_allConventions[1]
          /\ conv = IF unk
                    THEN [Convention_allConventions[ndx]
                            EXCEPT !.theOrder = Unknown]
                    ELSE Convention_allConventions[ndx]
    /\ cpc = "start"
    /\ numId = None
    /\ conNum = None
    /\ conStr = None
    /\ conBack = None
    /\ RoIdle
    /\ FitIdle
    /\ MaxIdle
    /\ RestIdle

\* numId = conv.numberEncoding()
NumberEncoding ==
    /\ cpc = "start"
    /\ numId' = numberEncoding(conv)
    /\ cpc' = "encoded"
    /\ UNCHANGED <<ndx, conv, conNum, conStr, conBack, roVars, fitVars, maxVars, restVars>>

\* conNum = Convention::fromNumberEncoding(numId), for a numId of a valid
\* convention (the keys stored by testKeys)
FromNumberEncoding ==
    /\ cpc = "encoded"
    /\ IF ~numId.neg
       THEN conNum' = fromNumberEncoding(numId)
       ELSE conNum' = conNum
    /\ cpc' = "decoded"
    /\ UNCHANGED <<ndx, conv, numId, conStr, conBack, roVars, fitVars, maxVars, restVars>>

\* conStr = ConventionString::from(conv)
StringFrom ==
    /\ cpc = "decoded"
    /\ conStr' = ConventionString_from(conv)
    /\ cpc' = "string"
    /\ UNCHANGED <<ndx, conv, numId, conNum, conBack, roVars, fitVars, maxVars, restVars>>

\* conBack = conStr.convention()
StringConvention ==
    /\ cpc = "string"
    /\ \E nullSign \in NullSignsRead(conStr) :
          conBack' = convention(conStr, nullSign)
    /\ cpc' = "done"
    /\ UNCHANGED <<ndx, conv, numId, conNum, conStr, roVars, fitVars, maxVars, restVars>>

ConvNext ==
    \/ NumberEncoding
    \/ FromNumberEncoding
    \/ StringFrom
    \/ StringConvention

SpecConv == ConvInit /\ [][ConvNext]_vars

----------------------------------------------------------------------------
\* Rigid algebra kernel.  Lengths are integers and angles are counted in
\* quarter turns, so every rotation is one of the 24 rotations of the cube
\* and every product below is exact.

Vec(x, y, z) == <<x, y, z>>

VecAdd(a, b) == <<a[1] + b[1], a[2] + b[2], a[3] + b[3]>>
VecSub(a, b) == <<a[1] - b[1], a[2] - b[2], a[3] - b[3]>>
VecNeg(a)    == <<0 - a[1], 0 - a[2], 0 - a[3]>>
VecScale(n, a) == <<n * a[1], n * a[2], n * a[3]>>
magSq(a) == a[1] * a[1] + a[2] * a[2] + a[3] * a[3]

e1 == <<1, 0, 0>>
e2 == <<0, 1, 0>>
e3 == <<0, 0, 1>>

\* an attitude is kept by the images of e1, e2, e3
AttIdentity == <<e1, e2, e3>>

\* rotate(att, v)
AttApply(att, v) ==
    VecAdd(VecScale(v[1], att[1]),
           VecAdd(VecScale(v[2], att[2]), VecScale(v[3], att[3])))

\* attA * attB: attB acts first
AttMul(attA, attB) ==
    <<AttApply(attA, attB[1]), AttApply(attA, attB[2]), AttApply(attA, attB[3])>>

\* reverse of a unit spinor: the transposed rotation
AttInverse(att) ==
    << <<att[1][1], att[2][1], att[3][1]>>,
       <<att[1][2], att[2][2], att[3][2]>>,
       <<att[1][3], att[2][3], att[3][3]>> >>

\* one quarter turn in the planes e23, e31, e12 under s v reverse(s)
\* with s = exp(biv / 2)
QuarterTurn ==
    << << <<1, 0, 0>>, <<0, 0, -1>>, <<0, 1, 0>> >>
     , << <<0, 0, 1>>, <<0, 1, 0>>, <<-1, 0, 0>> >>
     , << <<0, -1, 0>>, <<1, 0, 0>>, <<0, 0, 1>> >> >>

\* the attitudes of 0, 1, 2, 3 quarter turns in each plane
QuarterTurns ==
    [plane \in 1..3 |->
        LET one == QuarterTurn[plane]
            two == AttMul(one, one)
        IN  <<AttIdentity, one, two, AttMul(one, two)>>]

\* Attitude(PhysAngle{ size * plane }), size in quarter turns
AttitudeOf(size, plane) == QuarterTurns[plane + 1][(size % 4) + 1]

\* rigibra::Transform; valid is FALSE for a transform holding NaN
Transform(loc, att) == [valid |-> TRUE, loc |-> loc, att |-> att]

NullTransform == [valid |-> FALSE, loc |-> <<0, 0, 0>>, att |-> AttIdentity]

IdentityTransform == Transform(<<0, 0, 0>>, AttIdentity)

OriIsValid(ori) == ori.valid

\* ori(v): rotate, then translate
OriApply(ori, v) == VecAdd(ori.loc, AttApply(ori.att, v))

\* oriA * oriB: oriB acts first
OriMul(oriA, oriB) ==
    IF oriA.valid /\ oriB.valid
    THEN Transform(VecAdd(oriA.loc, AttApply(oriA.att, oriB.loc)),
                   AttMul(oriA.att, oriB.att))
    ELSE NullTransform

\* inverse(ori)
OriInverse(ori) ==
    IF ori.valid
    THEN Transform(AttApply(AttInverse(ori.att), VecNeg(ori.loc)),
                   AttInverse(ori.att))
    ELSE NullTransform

----------------------------------------------------------------------------
\* Sorted containers

\* the keys of a std::map / std::set of SenKey in iteration order
RECURSIVE SortedKeys(_)
SortedKeys(S) ==
    IF S = {} THEN <<>>
    ELSE LET lo == CHOOSE k \in S : \A j \in S : k <= j
         IN  <<lo>> \o SortedKeys(S \ {lo})

\* KeyPair
KeyPair(keyFrom, keyInto) == [theKeyFrom |-> keyFrom, theKeyInto |-> keyInto]

\* operator<(KeyPair, KeyPair): the order of std::pair
KeyPairLess(pairA, pairB) ==
    \/ pairA.theKeyFrom < pairB.theKeyFrom
    \/ /\ ~(pairB.theKeyFrom < pairA.theKeyFrom)
       /\ pairA.theKeyInto < pairB.theKeyInto

\* std::map<KeyPair, SenOri>::emplace_hint: a sequence of entries kept in
\* key order; an entry whose key is already present is not replaced
RECURSIVE MapEmplace(_, _)
MapEmplace(map, entry) ==
    IF map = <<>> THEN <<entry>>
    ELSE IF KeyPairLess(entry.key, Head(map).key)
         THEN <<entry>> \o map
         ELSE IF KeyPairLess(Head(map).key, entry.key)
              THEN <<Head(map)>> \o MapEmplace(Tail(map), entry)
              ELSE map

----------------------------------------------------------------------------
\* Orientation.hpp: relativeOrientationBetweens

\* the product taken with the factors exchanged
RelOriSwapped(ori1wR, ori2wR) ==
    LET oriRw1 == OriInverse(ori1wR)
    IN  OriMul(oriRw1, ori2wR)

\* body of the inner loop: ori2w1 = ori2wR * inverse(ori1wR)
RelOri(ori1wR, ori2wR) ==
    LET oriRw1 == OriInverse(ori1wR)
    IN  OriMul(ori2wR, oriRw1)

\* inner loop: it2 runs from position i2 to the end of the map
RECURSIVE RelOriInner(_, _, _, _, _)
RelOriInner(keyOris, keys, i1, i2, ros) ==
    IF i2 > Len(keys) THEN ros
    ELSE LET key1 == keys[i1]
             key2 == keys[i2]
             ori2w1 == RelOri(keyOris[key1], keyOris[key2])
         IN  RelOriInner(keyOris, keys, i1, i2 + 1,
                 MapEmplace(ros, [key |-> KeyPair(key1, key2), val |-> ori2w1]))

\* outer loop: it1 runs over the whole map
RECURSIVE RelOriOuter(_, _, _, _)
RelOriOuter(keyOris, keys, i1, ros) ==
    IF i1 > Len(keys) THEN ros
    ELSE RelOriOuter(keyOris, keys, i1 + 1,
             RelOriInner(keyOris, keys, i1, i1 + 1, ros))

\* the inner loop started at it1 instead of the entry after it1
relativeOrientationBetweensWithSelf(keyOris) ==
    LET keys == SortedKeys(DOMAIN keyOris)
        F[i1 \in 1..(Len(keys) + 1)] ==
            IF i1 > Len(keys) THEN <<>>
            ELSE RelOriInner(keyOris, keys, i1, i1, F[i1 + 1])
    IN  F[1]

relativeOrientationBetweens(keyOris) ==
    RelOriOuter(keyOris, SortedKeys(DOMAIN keyOris), 1, <<>>)

\* Simulation.cpp: independentKeyOris
independentKeyOris(oriSenWrtBox, oriBoxWrtRef) ==
    [key \in DOMAIN oriSenWrtBox |-> OriMul(oriSenWrtBox[key], oriBoxWrtRef)]

----------------------------------------------------------------------------
\* Convention.cpp: parameter group to orientation

\* ParmGroup: three distances, three angles (in quarter turns)
ParmGroup(distances, angles) ==
    [theDistances |-> distances, theAngles |-> angles]

\* a ParmGroup holding NaN (as default constructed)
NullParmGroup == [theDistances |-> <<>>, theAngles |-> <<>>]

\* an offset that leaves the signs of the convention out
offsetForUnsigned(convOff, parmGroup) ==
    LET dVals == parmGroup.theDistances
    IN  << dVals[convOff.theOffIndices[1] + 1]
         , dVals[convOff.theOffIndices[2] + 1]
         , dVals[convOff.theOffIndices[3] + 1] >>

\* ConventionOffset::offsetFor
offsetFor(convOff, parmGroup) ==
    LET dVals == parmGroup.theDistances
    IN  << convOff.theOffSigns[1] * dVals[convOff.theOffIndices[1] + 1]
         , convOff.theOffSigns[2] * dVals[convOff.theOffIndices[2] + 1]
         , convOff.theOffSigns[3] * dVals[convOff.theOffIndices[3] + 1] >>

\* the three rotations multiplied in the other order: attA * attB * attC
attitudeForLeftToRight(convAng, parmGroup) ==
    LET aVals == parmGroup.theAngles
        size(k) == convAng.theAngSigns[k] * aVals[convAng.theAngIndices[k] + 1]
        attA == AttitudeOf(size(1), convAng.theBivIndices[1])
        attB == AttitudeOf(size(2), convAng.theBivIndices[2])
        attC == AttitudeOf(size(3), convAng.theBivIndices[3])
    IN  AttMul(attA, AttMul(attB, attC))

\* ConventionAngle::attitudeFor: attNet = attC * attB * attA
attitudeFor(convAng, parmGroup) ==
    LET aVals == parmGroup.theAngles
        size(k) == convAng.theAngSigns[k] * aVals[convAng.theAngIndices[k] + 1]
        attA == AttitudeOf(size(1), convAng.theBivIndices[1])
        attB == AttitudeOf(size(2), convAng.theBivIndices[2])
        attC == AttitudeOf(size(3), convAng.theBivIndices[3])
    IN  AttMul(attC, AttMul(attB, attA))

\* transformFor of the earlier revision in Convention.hpp, with
\* tVec = attR(ty) for RotTran
transformForHeader(con, parmGroup) ==
    IF parmGroup = NullParmGroup THEN NullTransform
    ELSE LET attR == attitudeFor(con.theConvAng, parmGroup)
             ty   == offsetFor(con.theConvOff, parmGroup)
             tVec == IF con.theOrder = RotTran
                     THEN AttApply(attR, ty)
                     ELSE ty
         IN  Transform(tVec, attR)

\* Convention::transformFor; a ParmGroup holding NaN gives a transform
\* holding NaN
transformFor(con, parmGroup) ==
    IF parmGroup = NullParmGroup THEN NullTransform
    ELSE LET attR == attitudeFor(con.theConvAng, parmGroup)
             ty   == offsetFor(con.theConvOff, parmGroup)
             tVec == IF con.theOrder = RotTran
                     THEN AttApply(AttInverse(attR), ty)
                     ELSE ty
         IN  Transform(tVec, attR)

----------------------------------------------------------------------------
\* Analysis.hpp: scoring.  A double is kept in hundredths, rounded down;
\* NaN is a value of its own that makes every comparison false.

NaN == -1

RealUnit == 100

DblAdd(a, b) == IF a = NaN \/ b = NaN THEN NaN ELSE a + b

\* scale * value with scale = 1 / count
DblOver(a, count) == IF a = NaN THEN NaN ELSE a \div count

DblLess(a, b) == a # NaN /\ b # NaN /\ a < b

\* std::max(a, b): (a < b) ? b : a
DblMax(a, b) == IF DblLess(a, b) THEN b ELSE a

\* std::sqrt of value / (RealUnit * RealUnit), in hundredths
RECURSIVE SqrtBetween(_, _, _)
SqrtBetween(value, lo, hi) ==
    IF lo >= hi THEN lo
    ELSE LET mid == (lo + hi + 1) \div 2
         IN  IF mid * mid <= value
             THEN SqrtBetween(value, mid, hi)
             ELSE SqrtBetween(value, lo, mid - 1)

Sqrt(value) == SqrtBetween(value, 0, 46340)

\* triadTransformed(ori, sBasisTriad)
basisTransformed(ori) == <<OriApply(ori, e1), OriApply(ori, e2), OriApply(ori, e3)>>

\* rmseDiff: sqrt((1 / statDof) * sse)
rmseDiff(triA, triB) ==
    LET sse == magSq(VecSub(triB[1], triA[1]))
             + magSq(VecSub(triB[2], triA[2]))
             + magSq(VecSub(triB[3], triA[3]))
    IN  Sqrt((sse * RealUnit * RealUnit) \div 3)

rmseBasisErrorBetween2(ori1wX, ori2wX) ==
    IF OriIsValid(ori1wX) /\ OriIsValid(ori2wX)
    THEN rmseDiff(basisTransformed(ori1wX), basisTransformed(ori2wX))
    ELSE NaN

\* the relative orientation formed with the factors exchanged
relativeOrientationForSwapped(pg1, pg2, con) ==
    LET ori1wB == transformFor(con, pg1)
        ori2wB == transformFor(con, pg2)
        oriBw1 == OriInverse(ori1wB)
    IN  OriMul(oriBw1, ori2wB)

relativeOrientationFor(pg1, pg2, con) ==
    LET ori1wB == transformFor(con, pg1)
        ori2wB == transformFor(con, pg2)
        oriBw1 == OriInverse(ori1wB)
    IN  OriMul(ori2wB, oriBw1)

\* fitErrorByConvention reads itFind2->second although only itFind1 was
\* compared with keyGroups.end()
DerefsEnd(boxGroups, keyIndRelOris) ==
    \E i \in 1..Len(keyIndRelOris) :
        /\ keyIndRelOris[i].key.theKeyFrom \in DOMAIN boxGroups
        /\ keyIndRelOris[i].key.theKeyInto \notin DOMAIN boxGroups

\* fitErrorByConvention: the loop over the relative orientations, from
\* entry i on; undefPG is what a read through keyGroups.end() yields
RECURSIVE FitErrorLoop(_, _, _, _, _, _)
FitErrorLoop(boxGroups, keyIndRelOris, allBoxCons, undefPG, i, sumFitErrors) ==
    IF i > Len(keyIndRelOris) THEN sumFitErrors
    ELSE LET keyPair == keyIndRelOris[i].key
             relOri  == keyIndRelOris[i].val
             found1  == keyPair.theKeyFrom \in DOMAIN boxGroups
             found2  == keyPair.theKeyInto \in DOMAIN boxGroups
             pg1 == boxGroups[keyPair.theKeyFrom]
             pg2 == IF found2 THEN boxGroups[keyPair.theKeyInto] ELSE undefPG
             next ==
                 IF found1 /\ found1
                 THEN [cNdx \in 1..Len(allBoxCons) |->
                         DblAdd(sumFitErrors[cNdx],
                                rmseBasisErrorBetween2(
                                    relativeOrientationFor(pg1, pg2, allBoxCons[cNdx]),
                                    relOri))]
                 ELSE sumFitErrors
         IN  FitErrorLoop(boxGroups, keyIndRelOris, allBoxCons, undefPG,
                          i + 1, next)

fitErrorByConvention(boxGroups, keyIndRelOris, allBoxCons, undefPG) ==
    FitErrorLoop(boxGroups, keyIndRelOris, allBoxCons, undefPG, 1,
                 [cNdx \in 1..Len(allBoxCons) |-> 0])

\* FitNdxPair: (fit error, index into the conventions, counted from 0)
FitNdxPair(fitError, nn) == [first |-> fitError, second |-> nn]

\* the accumulated errors paired with the index, without the scale
fitIndexPairsForRelOrisUnscaled(boxGroups, keyIndRelOris, allBoxCons, undefPG) ==
    LET sumFitErrors ==
            fitErrorByConvention(boxGroups, keyIndRelOris, allBoxCons, undefPG)
    IN  [k \in 1..Len(sumFitErrors) |-> FitNdxPair(sumFitErrors[k], k - 1)]

\* fitIndexPairsFor(keyGroups, keyIndRelOris, allBoxConventions)
fitIndexPairsForRelOris(boxGroups, keyIndRelOris, allBoxCons, undefPG) ==
    LET sumFitErrors ==
            fitErrorByConvention(boxGroups, keyIndRelOris, allBoxCons, undefPG)
        numRelOris == Len(keyIndRelOris)
    IN  [k \in 1..Len(sumFitErrors) |->
            FitNdxPair(DblOver(sumFitErrors[k], numRelOris), k - 1)]

\* fitIndexPairsFor(keyGroups, keyIndEOs, allBoxConventions)
fitIndexPairsFor(boxGroups, indEOs, allBoxCons, undefPG) ==
    IF 1 < Cardinality(DOMAIN indEOs)
    THEN fitIndexPairsForRelOris(boxGroups,
             relativeOrientationBetweens(indEOs), allBoxCons, undefPG)
    ELSE <<>>

\* operator< of std::pair<double, std::size_t>
FitNdxPairLess(pairA, pairB) ==
    \/ DblLess(pairA.first, pairB.first)
    \/ /\ ~DblLess(pairB.first, pairA.first)
       /\ pairA.second < pairB.second

\* std::sort(begin, end) of FitNdxPair without NaN: the ascending arrangement
RECURSIVE SortInsert(_, _)
SortInsert(sorted, pair) ==
    IF sorted = <<>> THEN <<pair>>
    ELSE IF FitNdxPairLess(pair, Head(sorted))
         THEN <<pair>> \o sorted
         ELSE <<Head(sorted)>> \o SortInsert(Tail(sorted), pair)

RECURSIVE SortPairs(_)
SortPairs(pairs) ==
    IF pairs = <<>> THEN <<>>
    ELSE SortInsert(SortPairs(Tail(pairs)), Head(pairs))

\* Simulation.cpp: boxKeyOris
simBoxKeyOris(boxGroups, con) ==
    [key \in DOMAIN boxGroups |-> transformFor(con, boxGroups[key])]

----------------------------------------------------------------------------
\* Combo.hpp: orientations by convention, and Analysis.hpp: computeMaxErrors

\* ConOri: (Convention::numberEncoding(), orientation)
ConOri(conNumId, ori) == [first |-> conNumId, second |-> ori]

\* conventionOrientationPairsFor with the offset conventions in the outer
\* loop and the angle conventions in the inner one
conventionOrientationPairsForOffsetOuter(conOffs, conAngs, parmGroup) ==
    LET numAngs == Len(conAngs)
        pairAt(a, o, order) ==
            LET conAng == conAngs[a]
                conOff == conOffs[o]
                attYwX == attitudeFor(conAng, parmGroup)
                attXwY == AttInverse(attYwX)
                trans  == offsetFor(conOff, parmGroup)
                tVec   == IF order = TranRot THEN trans
                          ELSE AttApply(attXwY, trans)
                ori    == IF parmGroup = NullParmGroup THEN NullTransform
                          ELSE Transform(tVec, attYwX)
            IN  ConOri(numberEncoding(Convention(conOff, conAng, order)), ori)
    IN  [k \in 1..(numAngs * Len(conOffs) * 2) |->
            pairAt((((k - 1) \div 2) % numAngs) + 1,
                   ((k - 1) \div (2 * numAngs)) + 1,
                   IF (k - 1) % 2 = 0 THEN TranRot ELSE RotTran)]

\* conventionOrientationPairsFor: conAngs outer, conOffs inner, the TranRot
\* entry before the RotTran entry
conventionOrientationPairsFor(conOffs, conAngs, parmGroup) ==
    LET numOffs == Len(conOffs)
        pairAt(a, o, order) ==
            LET conAng == conAngs[a]
                conOff == conOffs[o]
                attYwX == attitudeFor(conAng, parmGroup)
                attXwY == AttInverse(attYwX)
                trans  == offsetFor(conOff, parmGroup)
                tVec   == IF order = TranRot THEN trans
                          ELSE AttApply(attXwY, trans)
                ori    == IF parmGroup = NullParmGroup THEN NullTransform
                          ELSE Transform(tVec, attYwX)
            IN  ConOri(numberEncoding(Convention(conOff, conAng, order)), ori)
    IN  [k \in 1..(Len(conAngs) * numOffs * 2) |->
            pairAt(((k - 1) \div (2 * numOffs)) + 1,
                   (((k - 1) \div 2) % numOffs) + 1,
                   IF (k - 1) % 2 = 0 THEN TranRot ELSE RotTran)]

conventionOrientationsFor(conOffs, conAngs, parmGroups) ==
    [key \in DOMAIN parmGroups |->
        conventionOrientationPairsFor(conOffs, conAngs, parmGroups[key])]

\* conventionROsWrtUseKey with the product taken the other way round
\* (inverse of the base on the left)
conventionROsWrtUseKeyBaseLeft(eoConOris, useKey) ==
    LET oriBases == eoConOris[useKey]
    IN  [senKey \in DOMAIN eoConOris |->
            [nn \in 1..Len(oriBases) |->
                LET oriBaseWrtRef == oriBases[nn].second
                    oriFreeWrtRef == eoConOris[senKey][nn].second
                    oriRefWrtBase == OriInverse(oriBaseWrtRef)
                IN  ConOri(oriBases[nn].first,
                           OriMul(oriRefWrtBase, oriFreeWrtRef))]]

\* conventionROsWrtUseKey, for a useKey present in eoConOris and vectors of
\* one common size
conventionROsWrtUseKey(eoConOris, useKey) ==
    LET oriBases == eoConOris[useKey]
    IN  [senKey \in DOMAIN eoConOris |->
            [nn \in 1..Len(oriBases) |->
                LET oriBaseWrtRef == oriBases[nn].second
                    oriFreeWrtRef == eoConOris[senKey][nn].second
                    oriRefWrtBase == OriInverse(oriBaseWrtRef)
                IN  ConOri(oriBases[nn].first,
                           OriMul(oriFreeWrtRef, oriRefWrtBase))]]

\* mapkey::commonBetween
commonBetween(map1, map2) == DOMAIN map1 \cap DOMAIN map2

\* ErrPairCon: (error, (box id, ind id))
ErrPairCon(err, boxConId, indConId) ==
    [first |-> err, second |-> <<boxConId, indConId>>]

Int64Zero == Int64(<<0>>)

zeroErrPairCon == ErrPairCon(0, Int64Zero, Int64Zero)

\* the update of a slot that adds the new error to the stored one
SlotUpdateSum(firstPass, slot, rmse, currPairConId) ==
    IF firstPass
    THEN [exits |-> FALSE, slot |-> [first |-> rmse, second |-> currPairConId]]
    ELSE [exits |-> slot.second # currPairConId,
          slot  |-> [slot EXCEPT !.first = DblAdd(rmse, slot.first)]]

\* computeMaxErrors, body of the inner loop: the update of one slot
SlotUpdate(firstPass, slot, rmse, currPairConId) ==
    IF firstPass
    THEN [exits |-> FALSE, slot |-> [first |-> rmse, second |-> currPairConId]]
    ELSE [exits |-> slot.second # currPairConId,
          slot  |-> [slot EXCEPT !.first = DblMax(rmse, slot.first)]]

\* one sensor with the loops exchanged: ind conventions outer, box
\* conventions inner
SensorPassIndOuter(firstPass, ptMaxErrPairCons, boxOris, indOris) ==
    LET numInd == Len(indOris)
        numBox == Len(boxOris)
        update(k) ==
            LET boxConOri == boxOris[((k - 1) % numBox) + 1]
                indConOri == indOris[((k - 1) \div numBox) + 1]
            IN  SlotUpdate(firstPass, ptMaxErrPairCons[k],
                    rmseBasisErrorBetween2(boxConOri.second, indConOri.second),
                    <<boxConOri.first, indConOri.first>>)
        updates == [k \in 1..(Len(boxOris) * numInd) |-> update(k)]
    IN  [exits |-> \E k \in DOMAIN updates : updates[k].exits,
         written |-> DOMAIN updates,
         slots |->
            [k \in 1..Len(ptMaxErrPairCons) |->
                IF k \in DOMAIN updates THEN updates[k].slot
                ELSE ptMaxErrPairCons[k]]]

\* computeMaxErrors, one sensor: box conventions outer, ind conventions
\* inner, ndxEPCs counting the slots (slot k here is ndxEPCs = k - 1);
\* written holds the slots the pass assigns to
SensorPass(firstPass, ptMaxErrPairCons, boxOris, indOris) ==
    LET numInd == Len(indOris)
        update(k) ==
            LET boxConOri == boxOris[((k - 1) \div numInd) + 1]
                indConOri == indOris[((k - 1) % numInd) + 1]
            IN  SlotUpdate(firstPass, ptMaxErrPairCons[k],
                    rmseBasisErrorBetween2(boxConOri.second, indConOri.second),
                    <<boxConOri.first, indConOri.first>>)
        updates == [k \in 1..(Len(boxOris) * numInd) |-> update(k)]
    IN  [exits |-> \E k \in DOMAIN updates : updates[k].exits,
         written |-> DOMAIN updates,
         slots |->
            [k \in 1..Len(ptMaxErrPairCons) |->
                IF k \in DOMAIN updates THEN updates[k].slot
                ELSE ptMaxErrPairCons[k]]]

\* computeMaxErrors, the loop over useSenKeys from position i on
RECURSIVE SensorLoop(_, _, _, _, _)
SensorLoop(keys, i, boxROs, indROs, ptMaxErrPairCons) ==
    IF i > Len(keys) THEN [exits |-> FALSE, slots |-> ptMaxErrPairCons]
    ELSE LET pass == SensorPass(i = 1, ptMaxErrPairCons,
                                boxROs[keys[i]], indROs[keys[i]])
         IN  IF pass.exits THEN pass
             ELSE SensorLoop(keys, i + 1, boxROs, indROs, pass.slots)

computeMaxErrors(senKeys, boxROs, indROs, ptMaxErrPairCons) ==
    SensorLoop(SortedKeys(senKeys), 1, boxROs, indROs,
               [k \in 1..Len(ptMaxErrPairCons) |-> zeroErrPairCon])

\* operator< of PairConId (std::pair<ConNumId, ConNumId>)
PairConIdLess(idsA, idsB) ==
    \/ Int64Less(idsA[1], idsB[1])
    \/ /\ ~Int64Less(idsB[1], idsA[1])
       /\ Int64Less(idsA[2], idsB[2])

\* a comparison that looks at the errors only
ErrPairConLessByError(pairA, pairB) == DblLess(pairA.first, pairB.first)

\* operator< of ErrPairCon (std::pair<double, PairConId>): the errors, and
\* the ids where neither error is less than the other
ErrPairConLess(pairA, pairB) ==
    \/ DblLess(pairA.first, pairB.first)
    \/ /\ ~DblLess(pairB.first, pairA.first)
       /\ PairConIdLess(pairA.second, pairB.second)

\* some errors are NaN and some are numbers: operator< is then no strict
\* weak order on the entries in general
MixedNaN(pairs) ==
    /\ \E k \in 1..Len(pairs) : pairs[k].first = NaN
    /\ \E k \in 1..Len(pairs) : pairs[k].first # NaN

\* the entries left as they are
UnsortedErrPairCons(pairs) == pairs

\* std::sort(begin, end) of ErrPairCon where operator< is a strict weak
\* order: the ascending arrangement
RECURSIVE SortInsertErrPairCon(_, _)
SortInsertErrPairCon(sorted, pair) ==
    IF sorted = <<>> THEN <<pair>>
    ELSE IF ErrPairConLess(pair, Head(sorted))
         THEN <<pair>> \o sorted
         ELSE <<Head(sorted)>> \o SortInsertErrPairCon(Tail(sorted), pair)

RECURSIVE SortErrPairCons(_)
SortErrPairCons(pairs) ==
    IF pairs = <<>> THEN <<>>
    ELSE SortInsertErrPairCon(SortErrPairCons(Tail(pairs)), Head(pairs))

----------------------------------------------------------------------------
\* Relative orientation run: sensor orientations are given in the box frame,
\* exported into the reference frame, and the relative orientations of both
\* collections are formed.

MaxSensors == 4

SenKeys == 1..MaxSensors

\* sensor orientations used as inputs
OriPool ==
    { Transform(<<1, 2, 3>>, AttitudeOf(1, 0))
    , Transform(<<0, -1, 2>>, AttitudeOf(1, 2))
    , Transform(<<2, 0, -1>>, AttMul(AttitudeOf(1, 1), AttitudeOf(2, 0))) }

\* outer transforms (sXfmBoxWrtRef)
XfmPool ==
    { Transform(<<1, -2, 1>>, AttitudeOf(1, 1))
    , Transform(<<0, 3, -1>>, AttMul(AttitudeOf(3, 2), AttitudeOf(1, 0)))
    , IdentityTransform }

RoInit ==
    /\ rpc = "start"
    /\ \E keys \in SUBSET SenKeys : boxKeyOris \in [keys -> OriPool]
    /\ xfm \in XfmPool
    /\ indKeyOris = None
    /\ boxRos = None
    /\ indRos = None
    /\ ConvIdle
    /\ FitIdle
    /\ MaxIdle
    /\ RestIdle

\* boxRos = relativeOrientationBetweens(boxKeyOris)
BoxRelativeOrientations ==
    /\ rpc = "start"
    /\ boxRos' = relativeOrientationBetweens(boxKeyOris)
    /\ rpc' = "box"
    /\ UNCHANGED <<boxKeyOris, xfm, indKeyOris, indRos, convVars, fitVars, maxVars, restVars>>

\* indKeyOris = sim::independentKeyOris(boxKeyOris, xfm)
IndependentKeyOris ==
    /\ rpc = "box"
    /\ indKeyOris' = independentKeyOris(boxKeyOris, xfm)
    /\ rpc' = "exported"
    /\ UNCHANGED <<boxKeyOris, xfm, boxRos, indRos, convVars, fitVars, maxVars, restVars>>

\* indRos = relativeOrientationBetweens(indKeyOris)
IndRelativeOrientations ==
    /\ rpc = "exported"
    /\ indRos' = relativeOrientationBetweens(indKeyOris)
    /\ rpc' = "done"
    /\ UNCHANGED <<boxKeyOris, xfm, indKeyOris, boxRos, convVars, fitVars, maxVars, restVars>>

RoNext ==
    \/ BoxRelativeOrientations
    \/ IndependentKeyOris
    \/ IndRelativeOrientations

SpecRO == RoInit /\ [][RoNext]_vars

----------------------------------------------------------------------------
\* One-sided search run: exterior orientations are simulated from ParmGroups
\* with one generating convention and an outer transform; the search scores
\* every candidate convention and the result is sorted.

MaxFitSensors == 3

MaxCons == 6

\* sim::sKeyGroups: parameter groups by sensor, those of the first all zero
sKeyGroups ==
    << ParmGroup(<<0, 0, 0>>, <<0, 0, 0>>)
     , ParmGroup(<<1, 2, -3>>, <<1, 0, 2>>)
     , ParmGroup(<<-2, 0, 1>>, <<0, 3, 1>>)
     , ParmGroup(<<2, -1, 0>>, <<1, 1, 0>>)
     , ParmGroup(<<0, 1, -2>>, <<3, 2, 0>>) >>

\* the same sensors with every parameter zero
zeroKeyGroups ==
    [key \in 1..Len(sKeyGroups) |-> ParmGroup(<<0, 0, 0>>, <<0, 0, 0>>)]

\* parameter groups a stray read can yield
PGPool == { sKeyGroups[1], sKeyGroups[2], sKeyGroups[3] }

\* MaxCons conventions of allConventions(), every stride-th from start on
ConsFrom(start, stride) ==
    [k \in 1..MaxCons |->
        Convention_allConventions[
            ((start - 1 + (k - 1) * stride) % NumConventions) + 1]]

ConsLists ==
    { ConsFrom(1, 1), ConsFrom(20000, 1153) }

FitXfmPool ==
    { Transform(<<1, -2, 1>>, AttitudeOf(1, 1)), IdentityTransform }

FitInit ==
    /\ fpc = "start"
    /\ \E groups \in {sKeyGroups, zeroKeyGroups} :
          \E keys \in SUBSET (1..MaxFitSensors) :
             simGroups = [key \in keys |-> groups[key]]
    /\ \E drop \in {0} \cup DOMAIN simGroups :
          keyGroups = [key \in DOMAIN simGroups \ {drop} |-> simGroups[key]]
    /\ allCons \in ConsLists
    /\ cStar \in 1..MaxCons
    /\ xfmBoxWrtRef \in FitXfmPool
    /\ keyIndEOs = None
    /\ fitIndexPairs = None
    /\ ConvIdle
    /\ RoIdle
    /\ MaxIdle
    /\ RestIdle

\* keyIndEOs = independentKeyOris(boxKeyOris(simGroups, c*), xfmBoxWrtRef)
SimulateEOs ==
    /\ fpc = "start"
    /\ keyIndEOs' = independentKeyOris(
                        simBoxKeyOris(simGroups, allCons[cStar]), xfmBoxWrtRef)
    /\ fpc' = "simulated"
    /\ UNCHANGED <<simGroups, keyGroups, allCons, cStar, xfmBoxWrtRef,
                   fitIndexPairs, convVars, roVars, maxVars, restVars>>

\* what a read through keyGroups.end() can yield, where one happens
UndefOutcomes(boxGroups, indEOs) ==
    IF /\ 1 < Cardinality(DOMAIN indEOs)
       /\ DerefsEnd(boxGroups, relativeOrientationBetweens(indEOs))
    THEN PGPool \cup {NullParmGroup}
    ELSE {NullParmGroup}

\* fitIndexPairs = fitIndexPairsFor(keyGroups, keyIndEOs, allCons); a read
\* through keyGroups.end() yields any ParmGroup or ends the program
FitIndexPairsFor ==
    /\ fpc = "simulated"
    /\ \/ \E undefPG \in UndefOutcomes(keyGroups, keyIndEOs) :
             /\ fitIndexPairs' =
                    fitIndexPairsFor(keyGroups, keyIndEOs, allCons, undefPG)
             /\ fpc' = "fitted"
       \/ /\ 1 < Cardinality(DOMAIN keyIndEOs)
          /\ DerefsEnd(keyGroups, relativeOrientationBetweens(keyIndEOs))
          /\ fitIndexPairs' = fitIndexPairs
          /\ fpc' = "crashed"
    /\ UNCHANGED <<simGroups, keyGroups, allCons, cStar, xfmBoxWrtRef,
                   keyIndEOs, convVars, roVars, maxVars, restVars>>

HasNaN(pairs) == \E k \in 1..Len(pairs) : pairs[k].first = NaN

\* std::sort(fitIndexPairs.begin(), fitIndexPairs.end()), for a result free
\* of NaN (where operator< of the pairs is a strict weak order)
SortFitIndexPairs ==
    /\ fpc = "fitted"
    /\ ~HasNaN(fitIndexPairs)
    /\ fitIndexPairs' = SortPairs(fitIndexPairs)
    /\ fpc' = "sorted"
    /\ UNCHANGED <<simGroups, keyGroups, allCons, cStar, xfmBoxWrtRef,
                   keyIndEOs, convVars, roVars, maxVars, restVars>>

FitNext ==
    \/ SimulateEOs
    \/ FitIndexPairsFor
    \/ SortFitIndexPairs

SpecFit == FitInit /\ [][FitNext]_vars

----------------------------------------------------------------------------
\* Two-sided search run (main of OriAnalysis2): orientations by convention
\* for both frames, relative to the first sensor, then the largest error
\* over the other sensors for every pair of conventions.

MaxPairSensors == 3

\* box frame parameter groups
BoxPGPool ==
    { ParmGroup(<<1, 2, -3>>, <<1, 0, 2>>)
    , ParmGroup(<<-2, 0, 1>>, <<0, 3, 1>>) }

\* independent frame parameter groups, one of them holding NaN
IndPGPool ==
    { ParmGroup(<<1, 2, -3>>, <<1, 0, 2>>)
    , ParmGroup(<<0, 1, 2>>, <<2, 1, 0>>)
    , NullParmGroup }

\* two of the offset conventions: (+,-,+)(0,1,2) and (+,+,+)(0,1,2)
boxConOffs ==
    << ConventionOffset_allConventions[31], ConventionOffset_allConventions[43] >>

indConOffs == << ConventionOffset(<<1, 1, 1>>, <<0, 1, 2>>) >>

ConAngLists ==
    { << ConventionAngle_allConventions[1], ConventionAngle_allConventions[576] >>
    , << ConventionAngle_allConventions[200], ConventionAngle_allConventions[377] >> }

MaxInit ==
    /\ mpc = "loaded"
    /\ \E numSen \in 1..MaxPairSensors :
          /\ boxPGs \in [1..numSen -> BoxPGPool]
          /\ indPGs \in [1..numSen -> IndPGPool] \cup {boxPGs}
    /\ boxConAngs \in ConAngLists
    /\ indConAngs = boxConAngs
    /\ boxConOris = None
    /\ indConOris = None
    /\ boxConROs = None
    /\ indConROs = None
    /\ useSenKeys = None
    /\ maxErrPairCons = None
    /\ ConvIdle
    /\ RoIdle
    /\ FitIdle
    /\ RestIdle

\* Use first sensor as reference for Relative Orientations
useSenKey == SortedKeys(DOMAIN boxPGs)[1]

ConventionOrientationsFor ==
    /\ mpc = "loaded"
    /\ boxConOris' = conventionOrientationsFor(boxConOffs, boxConAngs, boxPGs)
    /\ indConOris' = conventionOrientationsFor(indConOffs, indConAngs, indPGs)
    /\ mpc' = "oriented"
    /\ UNCHANGED <<boxPGs, indPGs, boxConAngs, indConAngs, boxConROs,
                   indConROs, useSenKeys, maxErrPairCons,
                   convVars, roVars, fitVars, restVars>>

ConventionROsWrtUseKey ==
    /\ mpc = "oriented"
    /\ boxConROs' = conventionROsWrtUseKey(boxConOris, useSenKey)
    /\ indConROs' = conventionROsWrtUseKey(indConOris, useSenKey)
    /\ useSenKeys' = commonBetween(boxConOris, indConOris) \ {useSenKey}
    /\ mpc' = "relative"
    /\ UNCHANGED <<boxPGs, indPGs, boxConAngs, indConAngs, boxConOris,
                   indConOris, maxErrPairCons, convVars, roVars, fitVars, restVars>>

\* maxErrPairCons.resize(pairNumCons)
ResizeMaxErrPairCons ==
    /\ mpc = "relative"
    /\ LET boxNumCons == 2 * Len(boxConOffs) * Len(boxConAngs)
           indNumCons == 2 * Len(indConOffs) * Len(indConAngs)
       IN  maxErrPairCons' =
               [k \in 1..(boxNumCons * indNumCons) |-> zeroErrPairCon]
    /\ mpc' = "sized"
    /\ UNCHANGED <<boxPGs, indPGs, boxConAngs, indConAngs, boxConOris,
                   indConOris, boxConROs, indConROs, useSenKeys,
                   convVars, roVars, fitVars, restVars>>

\* computeMaxErrors(useSenKeys, boxConROs, indConROs, &maxErrPairCons)
ComputeMaxErrors ==
    /\ mpc = "sized"
    /\ LET out == computeMaxErrors(useSenKeys, boxConROs, indConROs,
                                   maxErrPairCons)
       IN  /\ maxErrPairCons' = out.slots
           /\ mpc' = IF out.exits THEN "exited" ELSE "computed"
    /\ UNCHANGED <<boxPGs, indPGs, boxConAngs, indConAngs, boxConOris,
                   indConOris, boxConROs, indConROs, useSenKeys,
                   convVars, roVars, fitVars, restVars>>

\* std::sort(maxErrPairCons.begin(), maxErrPairCons.end()); with errors of
\* both kinds the call has no defined result
SortMaxErrPairCons ==
    /\ mpc = "computed"
    /\ IF MixedNaN(maxErrPairCons)
       THEN /\ mpc' = "undefined"
            /\ maxErrPairCons' = maxErrPairCons
       ELSE /\ mpc' = "sorted"
            /\ maxErrPairCons' = SortErrPairCons(maxErrPairCons)
    /\ UNCHANGED <<boxPGs, indPGs, boxConAngs, indConAngs, boxConOris,
                   indConOris, boxConROs, indConROs, useSenKeys,
                   convVars, roVars, fitVars, restVars>>

MaxNext ==
    \/ ConventionOrientationsFor
    \/ ConventionROsWrtUseKey
    \/ ResizeMaxErrPairCons
    \/ ComputeMaxErrors
    \/ SortMaxErrPairCons

SpecMax == MaxInit /\ [][MaxNext]_vars

----------------------------------------------------------------------------
\* Analysis.hpp: OneSolutionFit, OneTrialResult, trialResultFrom

\* ConventionString::stringEncoding: the six tokens separated by blanks
stringEncoding(cs) ==
    cs.theStrOffSigns \o <<" ">> \o cs.theStrOffNdxs \o <<" ">>
        \o cs.theStrAngSigns \o <<" ">> \o cs.theStrAngNdxs \o <<" ">>
        \o cs.theStrBivNdxs \o <<" ">> \o cs.theStrOrder

OneSolutionFit(fitError, boxCS, indCS) ==
    [theFitError |-> fitError, theBoxCS |-> boxCS, theIndCS |-> indCS]

\* OneSolutionFit{}: the default member values
NullSolutionFit == OneSolutionFit(NaN, <<>>, <<>>)

\* OneSolutionFit::from
OneSolutionFit_from(fitNdxPair, allBoxCons, currIndConv) ==
    LET fitError    == fitNdxPair.first
        bestBoxNdx  == fitNdxPair.second
        bestBoxConv == allBoxCons[bestBoxNdx + 1]
        boxCS == stringEncoding(ConventionString_from(bestBoxConv))
        indCS == stringEncoding(ConventionString_from(currIndConv))
    IN  OneSolutionFit(fitError, boxCS, indCS)

OneTrialResult(the1st, the2nd, theEnd) ==
    [the1st |-> the1st, the2nd |-> the2nd, theEnd |-> theEnd]

\* a - b and a / b of doubles kept in hundredths
DblSub(a, b) == IF a = NaN \/ b = NaN THEN NaN ELSE a - b

DblDiv(a, b) == IF a = NaN \/ b = NaN THEN NaN ELSE (a * RealUnit) \div b

\* OneTrialResult::prominence
prominence(trial) ==
    LET worst == trial.theEnd.theFitError
    IN  IF DblLess(0, worst)
        THEN LET delta == DblSub(trial.the2nd.theFitError,
                                 trial.the1st.theFitError)
             IN  DblDiv(delta, worst)
        ELSE NaN

\* operator< of FitNdxPair is a strict weak order on the entries of pairs,
\* which std::sort requires
IsStrictWeakOrder(pairs) ==
    LET less(i, j)  == FitNdxPairLess(pairs[i], pairs[j])
        equiv(i, j) == ~less(i, j) /\ ~less(j, i)
        ndxs        == 1..Len(pairs)
    IN  \A i \in ndxs :
            /\ ~less(i, i)
            /\ \A j \in ndxs : \A k \in ndxs :
                  /\ (less(i, j) /\ less(j, k)) => less(i, k)
                  /\ (equiv(i, j) /\ equiv(j, k)) => equiv(i, k)

\* the arrangements of the entries of pairs
Arrangements(pairs) ==
    { [k \in 1..Len(pairs) |-> pairs[perm[k]]] :
          perm \in Permutations(1..Len(pairs)) }

\* no entry is less than an entry before it
Ascending(pairs) ==
    \A i \in 1..Len(pairs) : \A j \in 1..Len(pairs) :
        i < j => ~FitNdxPairLess(pairs[j], pairs[i])

\* std::sort(fitNdxs.begin(), fitNdxs.end()): an ascending arrangement
\* where operator< is a strict weak order on the entries; otherwise the
\* call has no defined result and leaves the entries in any arrangement
SortOutcomes(pairs) ==
    IF IsStrictWeakOrder(pairs)
    THEN { sorted \in Arrangements(pairs) : Ascending(sorted) }
    ELSE Arrangements(pairs)

\* trialResultFrom after the sort
trialResultFromSorted(sorted, allBoxCons, currIndConv) ==
    LET numPairs == Len(sorted)
        the1st == IF 0 < numPairs
                  THEN OneSolutionFit_from(sorted[1], allBoxCons, currIndConv)
                  ELSE NullSolutionFit
        the2nd == IF 1 < numPairs
                  THEN OneSolutionFit_from(sorted[2], allBoxCons, currIndConv)
                  ELSE NullSolutionFit
        theEnd == IF 2 < numPairs
                  THEN OneSolutionFit_from(sorted[numPairs], allBoxCons,
                                           currIndConv)
                  ELSE NullSolutionFit
    IN  OneTrialResult(the1st, the2nd, theEnd)

----------------------------------------------------------------------------
\* Trial result run: a list of fit errors by convention index is given to
\* trialResultFrom, and the prominence of the result is asked for.

MaxFitList == 3

\* fit errors in hundredths (no two of them 0.01 apart) and NaN
ScorePool == {0, 50, 200, NaN}

\* the conventions the indices of the list refer to
trialBoxCons ==
    [k \in 1..(MaxFitList + 1) |->
        Convention_allConventions[(((k - 1) * 9973) % NumConventions) + 1]]

TrialIndCons == {Convention_allConventions[1], Convention_allConventions[30000]}

TrialInit ==
    /\ tpc = "called"
    /\ \E numPairs \in 0..MaxFitList :
          \E scores \in [1..numPairs -> ScorePool] :
             trialPairs = [k \in 1..numPairs |-> FitNdxPair(scores[k], k - 1)]
    /\ currIndCon \in TrialIndCons
    /\ fitNdxs = None
    /\ trialResult = None
    /\ prom = None
    /\ CoreIdle
    /\ XfmIdle
    /\ IoIdle
    /\ AppIdle
    /\ CallIdle

\* trialResult = trialResultFrom(trialPairs, trialBoxCons, currIndCon)
TrialResultFrom ==
    /\ tpc = "called"
    /\ \E sorted \in SortOutcomes(trialPairs) :
          /\ fitNdxs' = sorted
          /\ trialResult' =
                 trialResultFromSorted(sorted, trialBoxCons, currIndCon)
    /\ tpc' = "returned"
    /\ UNCHANGED <<trialPairs, currIndCon, prom, coreVars, xfmVars, ioVars,
                   appVars, callVars>>

\* trialResult.prominence()
Prominence ==
    /\ tpc = "returned"
    /\ prom' = prominence(trialResult)
    /\ tpc' = "reported"
    /\ UNCHANGED <<trialPairs, currIndCon, fitNdxs, trialResult, coreVars,
                   xfmVars, ioVars,
                   appVars, callVars>>

TrialNext ==
    \/ TrialResultFrom
    \/ Prominence

SpecTrial == TrialInit /\ [][TrialNext]_vars

----------------------------------------------------------------------------
\* Transform run: two conventions are applied to one ParmGroup, and the
\* attitude and the orientation pairs are formed for the first of them.

MaxXfmAngs == 2

\* ParmGroups without NaN: distances distinct and nonzero, two of them of
\* one magnitude in the first; angles distinct and nonzero (quarter turns)
XfmPGPool ==
    { ParmGroup(<<1, -1, 2>>, <<1, 2, 3>>)
    , ParmGroup(<<1, 2, -3>>, <<1, 3, 2>>) }

\* every fourth offset convention
XfmOffsA == [k \in 1..12 |-> ConventionOffset_allConventions[4 * k - 3]]

\* MaxXfmAngs angle conventions of ConventionAngle::allConventions()
XfmAngs ==
    [k \in 1..MaxXfmAngs |->
        ConventionAngle_allConventions[(((k - 1) * 376) % 576) + 1]]

XfmInit ==
    /\ xpc = "given"
    /\ xfmPG \in XfmPGPool
    /\ \E o \in 1..Len(XfmOffsA) : \E a \in 1..Len(XfmAngs) :
          \E order \in {TranRot, RotTran} :
             conA = Convention(XfmOffsA[o], XfmAngs[a], order)
    /\ \E o \in 1..Len(ConventionOffset_allConventions) :
          \E a \in 1..Len(XfmAngs) : \E order \in {TranRot, RotTran} :
             conB = Convention(ConventionOffset_allConventions[o], XfmAngs[a],
                               order)
    /\ xfmA = None
    /\ xfmB = None
    /\ attNet = None
    /\ xfmConOris = None
    /\ CoreIdle
    /\ TrialIdle
    /\ IoIdle
    /\ AppIdle
    /\ CallIdle

\* convention.transformFor(parmGroup) for both conventions
TransformFor ==
    /\ xpc = "given"
    /\ xfmA' = transformFor(conA, xfmPG)
    /\ xfmB' = transformFor(conB, xfmPG)
    /\ xpc' = "transformed"
    /\ UNCHANGED <<xfmPG, conA, conB, attNet, xfmConOris, coreVars, trialVars, ioVars,
                   appVars, callVars>>

\* conA.attitudeFor(parmGroup)
AttitudeFor ==
    /\ xpc = "transformed"
    /\ attNet' = attitudeFor(conA.theConvAng, xfmPG)
    /\ xpc' = "attitude"
    /\ UNCHANGED <<xfmPG, conA, conB, xfmA, xfmB, xfmConOris, coreVars,
                   trialVars, ioVars,
                   appVars, callVars>>

\* conventionOrientationPairsFor with the offset and angle parts of conA
ConventionOrientationPairsFor ==
    /\ xpc = "attitude"
    /\ xfmConOris' = conventionOrientationPairsFor(
                         <<conA.theConvOff>>, <<conA.theConvAng>>, xfmPG)
    /\ xpc' = "paired"
    /\ UNCHANGED <<xfmPG, conA, conB, xfmA, xfmB, attNet, coreVars, trialVars, ioVars,
                   appVars, callVars>>

XfmNext ==
    \/ TransformFor
    \/ AttitudeFor
    \/ ConventionOrientationPairsFor

SpecXfm == XfmInit /\ [][XfmNext]_vars

----------------------------------------------------------------------------
\* io.cpp, io.hpp: record loaders.  A line is the sequence of its words,
\* blanks between words left out; White is a run of blanks at the start or
\* the end of a line, and the word "#" is the comment character.

White == " "

\* withoutComment (io.cpp), priv::activePartOf (io.hpp): the part before '#'
withoutComment(line) ==
    LET found == {i \in 1..Len(line) : line[i] = "#"}
    IN  IF found # {}
        THEN SubSeq(line, 1, (CHOOSE i \in found : \A j \in found : i <= j) - 1)
        ELSE line

\* trimmed: a line of blanks only has no first and no last non-blank, and
\* is returned whole
trimmed(full) ==
    IF full = <<>> THEN <<>>
    ELSE LET got == {i \in 1..Len(full) : full[i] # White}
             posBeg == IF got # {}
                       THEN CHOOSE i \in got : \A j \in got : i <= j
                       ELSE 1
             posEnd == IF got # {}
                       THEN CHOOSE i \in got : \A j \in got : j <= i
                       ELSE Len(full)
         IN  SubSeq(full, posBeg, posEnd)

\* std::istringstream iss(record): the words not yet read and !fail()
IStringStream(record) == [words |-> record, good |-> TRUE]

\* leading blanks are skipped by every formatted extraction
SkipWhite(words) == SelectSeq(words, LAMBDA w : w # White)

\* iss >> str: the next word; with nothing left, or after a failure, the
\* extraction fails and str keeps its value
ExtractString(iss, str) ==
    LET words == SkipWhite(iss.words)
    IN  IF iss.good /\ words # <<>>
        THEN [iss |-> [words |-> Tail(words), good |-> TRUE],
              value |-> Head(words)]
        ELSE [iss |-> [words |-> words, good |-> FALSE], value |-> str]

\* engabra::g3::null<double>() (a NaN) among the values of the records
nullDouble == -1000

\* the words that read as a number (distances as integers, angles as
\* quarter turns)
NumberWords == {"0", "1", "2", "3", "-1"}

NumberOf(word) ==
    CASE word = "0" -> 0
      [] word = "1" -> 1
      [] word = "2" -> 2
      [] word = "3" -> 3
      [] word = "-1" -> -1

\* iss >> value: after a failure, or with nothing left, value is left as it
\* is; a word that is not a number stores 0 and sets the fail state
ExtractDouble(iss, value) ==
    LET words == SkipWhite(iss.words)
    IN  IF ~iss.good \/ words = <<>>
        THEN [iss |-> [words |-> words, good |-> FALSE], value |-> value]
        ELSE IF Head(words) \in NumberWords
        THEN [iss |-> [words |-> Tail(words), good |-> TRUE],
              value |-> NumberOf(Head(words))]
        ELSE [iss |-> [words |-> words, good |-> FALSE], value |-> 0]

\* three values initialised to null, then iss >> v[0] >> v[1] >> v[2]
ExtractThree(iss) ==
    LET x0 == ExtractDouble(iss, nullDouble)
        x1 == ExtractDouble(x0.iss, nullDouble)
        x2 == ExtractDouble(x1.iss, nullDouble)
    IN  <<x0.value, x1.value, x2.value>>

\* engabra::g3::isValid of an array: no value is NaN
isValidThree(vals) == \A i \in 1..3 : vals[i] # nullDouble

\* ParmGroup::isValid
ParmGroup_isValid(pg) ==
    isValidThree(pg.theDistances) /\ isValidThree(pg.theAngles)

\* the characters of a word
CharsOf(word) ==
    CASE word = "+++" -> <<"+", "+", "+">>
      [] word = "+-+" -> <<"+", "-", "+">>
      [] word = "+x+" -> <<"+", "x", "+">>
      [] word = "012" -> <<"0", "1", "2">>
      [] word = "120" -> <<"1", "2", "0">>
      [] word = "0x2" -> <<"0", "x", "2">>
      [] word = "01" -> <<"0", "1">>
      [] word = "" -> <<>>
      [] word \in {"0", "1", "2", "3", "x"} -> <<word>>

\* ConventionString::from(encoding): six extractions into empty strings
ConventionString_fromEncoding(iss) ==
    LET s1 == ExtractString(iss, "")
        s2 == ExtractString(s1.iss, "")
        s3 == ExtractString(s2.iss, "")
        s4 == ExtractString(s3.iss, "")
        s5 == ExtractString(s4.iss, "")
        s6 == ExtractString(s5.iss, "")
    IN  ConventionString(CharsOf(s1.value), CharsOf(s2.value),
                         CharsOf(s3.value), CharsOf(s4.value),
                         CharsOf(s5.value), CharsOf(s6.value))

\* ConventionString::isValid: "quick check on length"
ConventionString_isValid(cs) ==
    /\ Len(cs.theStrOffSigns) = 3
    /\ Len(cs.theStrOffNdxs) = 3
    /\ Len(cs.theStrAngSigns) = 3
    /\ Len(cs.theStrAngNdxs) = 3
    /\ Len(cs.theStrBivNdxs) = 3
    /\ Len(cs.theStrOrder) = 1

\* a std::map without entries
EmptyMap == [k \in {} |-> None]

\* map[key] = value
MapAssign(map, key, value) ==
    [k \in (DOMAIN map) \cup {key} |-> IF k = key THEN value ELSE map[k]]

\* the keyword of the record of three distances
LocKeyword(fn) == IF fn = "loadOrientations" THEN "Locations:" ELSE "Distances:"

\* an index of the convention lies outside the three values of a ParmGroup
\* array and of the three planes
ReadsOutside(con) ==
    \E k \in 1..3 :
       \/ con.theConvOff.theOffIndices[k] \notin 0..2
       \/ con.theConvAng.theAngIndices[k] \notin 0..2
       \/ con.theConvAng.theBivIndices[k] \notin 0..2

----------------------------------------------------------------------------
\* Load run: one of the loaders reads a stream line by line and returns its
\* map.  The stream starts with the well-formed records of sensor "k2" and
\* goes on with MaxLines lines taken from LinePool, most about sensor "k1".

MaxLines == 3

Loaders == {"loadParmGroups", "loadOrientations", "loadIndEOs"}

\* the words after the sensor key of a record of three values
ThreeWords == { <<"1", "2", "3">>, <<"1", "2">>, <<"1", "2", "x">> }

\* the words after the sensor key of a Convention record: well-formed,
\* a sign that is no sign, an index that is no index, an order that is no
\* order, a word that is too short
ConventionWords ==
    { <<"+-+", "120", "+++", "012", "012", "1">>
    , <<"+x+", "012", "+++", "012", "012", "0">>
    , <<"+++", "0x2", "+++", "012", "012", "0">>
    , <<"+++", "012", "+++", "012", "012", "2">>
    , <<"+++", "01", "+++", "012", "012", "0">> }

LinePool ==
    { <<kw, "k1">> \o ws :
         kw \in {"Distances:", "Locations:", "Angles:"}, ws \in ThreeWords }
    \cup { <<"Convention:", "k1">> \o ws : ws \in ConventionWords }
    \cup { <<>>
         , <<White>>
         , <<"#", "Angles:", "k1", "1", "2", "3">>
         , <<White, "Angles:", "k1", "2", "3", "1", "#", "abc", White>>
         , <<"Other:", "k1", "1", "2", "3">>
         , <<"Angles:">>
         , <<"Angles:", "k2", "x", "2", "3">> }

\* the records of sensor "k2"
Preface(fn) ==
    IF fn = "loadParmGroups"
    THEN << <<"Distances:", "k2", "2", "3", "1">>
          , <<"Angles:", "k2", "1", "-1", "2">> >>
    ELSE << <<"Convention:", "k2", "+++", "012", "+++", "012", "012", "0">>
          , <<LocKeyword(fn), "k2", "2", "3", "1">>
          , <<"Angles:", "k2", "1", "-1", "2">> >>

IoInit ==
    /\ ipc = "reading"
    /\ loader \in Loaders
    /\ lines = {}
    /\ lineNo = 1
    /\ ioKeyword = ""
    /\ ioSenKey = ""
    /\ ioSenKeys = {}
    /\ keyConventions = EmptyMap
    /\ keyDistances = EmptyMap
    /\ keyAngles = EmptyMap
    /\ ioPGs = None
    /\ ioOris = None
    /\ CoreIdle
    /\ TrialIdle
    /\ XfmIdle
    /\ AppIdle
    /\ CallIdle

\* the lines the stream can deliver next
NextLines ==
    IF lineNo <= Len(Preface(loader))
    THEN {Preface(loader)[lineNo]}
    ELSE LinePool

\* number of lines of the stream
NumLines == Len(Preface(loader)) + MaxLines

\* one pass of the reading loop: getline, then the parsing of the record
ReadRecord ==
    /\ ipc = "reading"
    /\ lineNo <= NumLines
    /\ lineNo' = lineNo + 1
    /\ \E line \in NextLines :
          /\ lines' = lines \cup {line}
          /\ LET record == trimmed(withoutComment(line))
                 gotKeyword == ExtractString(IStringStream(record), ioKeyword)
                 gotSenKey == ExtractString(gotKeyword.iss, ioSenKey)
                 keyword == gotKeyword.value
                 senKey == gotSenKey.value
                 iss == gotSenKey.iss
             IN  IF record = <<>>
                 THEN UNCHANGED <<ioKeyword, ioSenKey, ioSenKeys, keyConventions,
                                  keyDistances, keyAngles>>
                 ELSE /\ ioKeyword' = keyword
                      /\ ioSenKey' = senKey
                      /\ CASE keyword = "Convention:" /\ loader # "loadParmGroups" ->
                                LET cs == ConventionString_fromEncoding(iss)
                                IN  IF ConventionString_isValid(cs)
                                    THEN /\ \E nullSign \in NullSignsRead(cs) :
                                               keyConventions' =
                                                  MapAssign(keyConventions, senKey,
                                                            convention(cs, nullSign))
                                         /\ ioSenKeys' = ioSenKeys \cup {senKey}
                                         /\ UNCHANGED <<keyDistances, keyAngles>>
                                    ELSE UNCHANGED <<ioSenKeys, keyConventions,
                                                     keyDistances, keyAngles>>
                           [] keyword = LocKeyword(loader) ->
                                LET dists == ExtractThree(iss)
                                IN  IF isValidThree(dists)
                                    THEN /\ keyDistances' =
                                               MapAssign(keyDistances, senKey, dists)
                                         /\ ioSenKeys' = ioSenKeys \cup {senKey}
                                         /\ UNCHANGED <<keyConventions, keyAngles>>
                                    ELSE UNCHANGED <<ioSenKeys, keyConventions,
                                                     keyDistances, keyAngles>>
                           [] keyword = "Angles:" ->
                                LET angles == ExtractThree(iss)
                                IN  IF isValidThree(angles)
                                    THEN /\ keyAngles' =
                                               MapAssign(keyAngles, senKey, angles)
                                         /\ ioSenKeys' = ioSenKeys \cup {senKey}
                                         /\ UNCHANGED <<keyConventions, keyDistances>>
                                    ELSE UNCHANGED <<ioSenKeys, keyConventions,
                                                     keyDistances, keyAngles>>
                           [] OTHER ->
                                UNCHANGED <<ioSenKeys, keyConventions, keyDistances,
                                            keyAngles>>
    /\ UNCHANGED <<ipc, loader, ioPGs, ioOris, coreVars, trialVars, xfmVars,
                   appVars, callVars>>

\* the keys of loadParmGroups that have both records
ParmGroupKeys ==
    {k \in ioSenKeys : k \in DOMAIN keyDistances /\ k \in DOMAIN keyAngles}

\* end of loadParmGroups: the loop over senKeys and the return
ReturnParmGroups ==
    /\ ipc = "reading"
    /\ lineNo > NumLines
    /\ loader = "loadParmGroups"
    /\ ioPGs' = [k \in {x \in ParmGroupKeys :
                          ParmGroup_isValid(
                             ParmGroup(keyDistances[x], keyAngles[x]))} |->
                    ParmGroup(keyDistances[k], keyAngles[k])]
    /\ ipc' = "returned"
    /\ UNCHANGED <<loader, lines, lineNo, ioKeyword, ioSenKey, ioSenKeys,
                   keyConventions, keyDistances, keyAngles, ioOris, coreVars,
                   trialVars, xfmVars,
                   appVars, callVars>>

\* the keys of loadOrientations / loadIndEOs that have all three records
OrientationKeys ==
    {k \in ioSenKeys : /\ k \in DOMAIN keyConventions
                       /\ k \in DOMAIN keyDistances
                       /\ k \in DOMAIN keyAngles}

\* end of loadOrientations / loadIndEOs: the loop over senKeys and the
\* return; transformFor with an index outside its arrays has no defined
\* result
ReturnOrientations ==
    /\ ipc = "reading"
    /\ lineNo > NumLines
    /\ loader # "loadParmGroups"
    /\ IF \E k \in OrientationKeys : ReadsOutside(keyConventions[k])
       THEN /\ ipc' = "undefined"
            /\ ioOris' = ioOris
       ELSE /\ ipc' = "returned"
            /\ ioOris' = [k \in OrientationKeys |->
                             transformFor(keyConventions[k],
                                ParmGroup(keyDistances[k], keyAngles[k]))]
    /\ UNCHANGED <<loader, lines, lineNo, ioKeyword, ioSenKey, ioSenKeys,
                   keyConventions, keyDistances, keyAngles, ioPGs, coreVars,
                   trialVars, xfmVars,
                   appVars, callVars>>

IoNext ==
    \/ ReadRecord
    \/ ReturnParmGroups
    \/ ReturnOrientations

SpecIO == IoInit /\ [][IoNext]_vars

----------------------------------------------------------------------------
\* Properties of the codecs and of the enumeration

ExpNumConventions == 55296

FromEnumeration == conv = Convention_allConventions[ndx]

ConventionSet ==
    {Convention_allConventions[n] : n \in 1..NumConventions}

NumIdSet ==
    {numberEncoding(Convention_allConventions[n]) : n \in 1..NumConventions}

\* C1: for every Convention c of allConventions(),
\* ConventionString::from(c).convention() == c, all six fields preserved.
C1_StringRoundTrip ==
    (cpc = "done" /\ FromEnumeration) => conBack = conv

\* C2: for every Convention c of allConventions(),
\* fromNumberEncoding(c.numberEncoding()) == c, and the numberEncoding()
\* values of the enumeration are pairwise distinct.
C2_NumberRoundTrip ==
    /\ (cpc \in {"decoded", "string", "done"} /\ FromEnumeration)
          => conNum = conv
    /\ Cardinality(NumIdSet) = NumConventions

C2_Witness ==
    /\ cpc = "decoded"
    /\ FromEnumeration
    /\ conv.theConvOff.theOffIndices # conv.theConvAng.theBivIndices
    /\ conNum = conv

\* C3: allConventions() returns exactly 55,296 conventions, no two of
\* which compare equal (neither field by field nor by numberEncoding()).
C3_CountAndUnique ==
    FromEnumeration =>
        /\ ndx \in 1..ExpNumConventions
        /\ NumConventions = ExpNumConventions
        /\ Cardinality(ConventionSet) = NumConventions
        /\ Cardinality(NumIdSet) = Cardinality(ConventionSet)

C3_Witness ==
    /\ cpc = "start"
    /\ ndx = ExpNumConventions
    /\ FromEnumeration

\* position of a value in one of the enumerating arrays, counted from 0
PlaceIn(seq, x) == (CHOOSE k \in 1..Len(seq) : seq[k] = x) - 1

\* rank of a convention in the documented nesting: offset (signs, then
\* indices) slowest, then angle signs, angle indices, bivector indices,
\* and the order fastest
NestingRank(c) ==
    ((((PlaceIn(allThreeSigns, c.theConvOff.theOffSigns) * 6
        + PlaceIn(allThreeIndices, c.theConvOff.theOffIndices)) * 8
        + PlaceIn(allThreeSigns, c.theConvAng.theAngSigns)) * 6
        + PlaceIn(allThreeIndices, c.theConvAng.theAngIndices)) * 12
        + PlaceIn(allBivIndices, c.theConvAng.theBivIndices)) * 2
        + PlaceIn(allOrderTRs, c.theOrder)

\* C4: allConventions() is in the documented nesting order, with TranRot
\* immediately before RotTran for each (offset, angle) combination.
C4_NestingOrder ==
    LET here == Convention_allConventions[ndx]
    IN  /\ NestingRank(here) = ndx - 1
        /\ here.theOrder = TranRot =>
              /\ ndx < NumConventions
              /\ Convention_allConventions[ndx + 1] =
                    [here EXCEPT !.theOrder = RotTran]

C4_Witness ==
    /\ cpc = "start"
    /\ FromEnumeration
    /\ conv.theOrder = RotTran
    /\ conv.theConvOff.theOffSigns = <<1, 1, 1>>
    /\ conv.theConvAng.theAngSigns = <<-1, -1, -1>>
    /\ ndx > 1152

\* the number of a sign triple and of an index triple, as documented
SignsNumber(signs) ==
      4 * (IF signs[1] > 0 THEN 1 ELSE 0)
    + 2 * (IF signs[2] > 0 THEN 1 ELSE 0)
    + (IF signs[3] > 0 THEN 1 ELSE 0)

IndicesNumber(indices) ==
    CHOOSE n \in 0..26 :
        /\ n \div 9 = indices[1]
        /\ (n \div 3) % 3 = indices[2]
        /\ n % 3 = indices[3]

\* 2^63 as base-100 magnitude
TwoTo63 ==
    [neg |-> FALSE, mag |-> <<8, 58, 77, 54, 85, 36, 20, 37, 22, 9>>]

\* C5: for a valid Convention numberEncoding() is 10^12 + 10^10 n(offSigns)
\* + 10^8 n(offIndices) + 10^6 n(angSigns) + 10^4 n(angIndices)
\* + 10^2 n(bivIndices) + n(order), each field inside its two decimal
\* digits and the value inside a signed 64-bit integer; for an Unknown
\* order numberEncoding() is -1.
C5_NumberLayout ==
    cpc # "start" =>
        IF conv.theOrder # Unknown
        THEN /\ ~numId.neg
             /\ numId.mag =
                   << conv.theOrder
                    , IndicesNumber(conv.theConvAng.theBivIndices)
                    , IndicesNumber(conv.theConvAng.theAngIndices)
                    , SignsNumber(conv.theConvAng.theAngSigns)
                    , IndicesNumber(conv.theConvOff.theOffIndices)
                    , SignsNumber(conv.theConvOff.theOffSigns)
                    , 1 >>
             /\ numId.mag[1] \in 0..1
             /\ \A k \in {2, 3, 5} : numId.mag[k] \in 0..26
             /\ \A k \in {4, 6} : numId.mag[k] \in 0..7
             /\ Int64Less(numId, TwoTo63)
        ELSE numId = Int64MinusOne

C5_Witness ==
    /\ cpc = "encoded"
    /\ FromEnumeration
    /\ numId.mag = <<1, 23, 19, 7, 19, 7, 1>>

----------------------------------------------------------------------------
\* Properties of the relative orientations

\* the pairs of distinct keys of a collection, smaller key first
DistinctPairs(keyOris) ==
    { KeyPair(k1, k2) : k1 \in DOMAIN keyOris, k2 \in DOMAIN keyOris } \
        { KeyPair(k, k) : k \in DOMAIN keyOris }

LexBefore(pairA, pairB) ==
    \/ pairA.theKeyFrom < pairB.theKeyFrom
    \/ /\ pairA.theKeyFrom = pairB.theKeyFrom
       /\ pairA.theKeyInto < pairB.theKeyInto

RoShape(keyOris, ros) ==
    LET n == Cardinality(DOMAIN keyOris)
    IN  /\ 2 * Len(ros) = n * (n - 1)
        /\ \A i \in 1..Len(ros) : ros[i].key.theKeyFrom < ros[i].key.theKeyInto
        /\ { ros[i].key : i \in 1..Len(ros) } =
               { pair \in DistinctPairs(keyOris) :
                    pair.theKeyFrom < pair.theKeyInto }
        /\ \A i \in 1..Len(ros) : \A j \in 1..Len(ros) :
               i < j => LexBefore(ros[i].key, ros[j].key)
        /\ n < 2 => ros = <<>>

\* C6: for a map of n sensor orientations relativeOrientationBetweens
\* returns n(n-1)/2 entries, one for each pair of distinct keys, each with
\* from() < into(), visited in lexicographic (from, into) order; for n < 2
\* the result is empty.
C6_RelOriPairs ==
    /\ rpc \in {"box", "exported", "done"} => RoShape(boxKeyOris, boxRos)
    /\ rpc = "done" => RoShape(indKeyOris, indRos)

C6_Witness ==
    /\ rpc = "box"
    /\ DOMAIN boxKeyOris = {1, 3, 4}
    /\ Len(boxRos) = 3

RoValues(keyOris, ros) ==
    \A i \in 1..Len(ros) :
        ros[i].val = OriMul(keyOris[ros[i].key.theKeyInto],
                            OriInverse(keyOris[ros[i].key.theKeyFrom]))

\* C7: the relative orientation stored for the pair (k1, k2) is
\* ori(k2) * inverse(ori(k1)), and the map of relative orientations is the
\* same after every input orientation is composed on the right with one
\* common transform.
C7_RelOriValue ==
    /\ rpc \in {"box", "exported", "done"} => RoValues(boxKeyOris, boxRos)
    /\ rpc = "done" => RoValues(indKeyOris, indRos) /\ indRos = boxRos

C7_Witness ==
    /\ rpc = "done"
    /\ Len(indRos) >= 3
    /\ xfm # IdentityTransform
    /\ \A key \in DOMAIN boxKeyOris : indKeyOris[key] # boxKeyOris[key]
    /\ \E i \in 1..Len(indRos) : indRos[i].val.att # AttIdentity

----------------------------------------------------------------------------
\* Properties of the one-sided search

\* every sensor of the simulation has its ParmGroup in the search input
Covered == DOMAIN keyGroups = DOMAIN simGroups

\* the record of the convention with index nn (from 0) has score zero
ZeroScored(pairs, nn) ==
    \E k \in 1..Len(pairs) : pairs[k].second = nn /\ pairs[k].first = 0

\* C8 as stated: for any ParmGroup set, any generating convention and any
\* outer transform, the generating convention gets a zero score and the
\* first record after the ascending sort carries its index.
C8_RecoversGenerating ==
    (fpc = "sorted" /\ Covered) =>
        /\ Len(fitIndexPairs) = Len(allCons)
        /\ ZeroScored(fitIndexPairs, cStar - 1)
        /\ fitIndexPairs[1].second = cStar - 1

\* C8, amended: with two or more sensors the generating convention gets a
\* zero score, and the first record after the ascending sort has a zero
\* score and the smallest index among the conventions with a zero score;
\* it carries the index of the generating convention exactly when no
\* earlier convention reproduces the reference relative orientations too.
C8_RecoversUpToTies ==
    (fpc = "sorted" /\ Covered /\ Cardinality(DOMAIN simGroups) >= 2) =>
        /\ Len(fitIndexPairs) = Len(allCons)
        /\ ZeroScored(fitIndexPairs, cStar - 1)
        /\ fitIndexPairs[1].first = 0
        /\ fitIndexPairs[1].second <= cStar - 1
        /\ \A nn \in 0..(cStar - 1) :
              ZeroScored(fitIndexPairs, nn) => fitIndexPairs[1].second <= nn
        /\ (fitIndexPairs[1].second = cStar - 1) <=>
              (\A nn \in 0..(cStar - 2) : ~ZeroScored(fitIndexPairs, nn))

C8_Witness ==
    /\ fpc = "sorted"
    /\ Covered
    /\ Cardinality(DOMAIN simGroups) = 3
    /\ xfmBoxWrtRef # IdentityTransform
    /\ cStar > 1
    /\ fitIndexPairs[1].second = cStar - 1
    /\ fitIndexPairs[2].first > 0

\* the pairs of sensors of the reference data, smaller key first
RefPairs ==
    { pair \in (DOMAIN keyIndEOs) \X (DOMAIN keyIndEOs) : pair[1] < pair[2] }

\* RMSE(ro_box(con), ro_ref) for one pair of sensors
PairError(con, pair) ==
    rmseBasisErrorBetween2(
        OriMul(transformFor(con, keyGroups[pair[2]]),
               OriInverse(transformFor(con, keyGroups[pair[1]]))),
        OriMul(keyIndEOs[pair[2]], OriInverse(keyIndEOs[pair[1]])))

RECURSIVE SumOfErrors(_, _)
SumOfErrors(con, pairs) ==
    IF pairs = {} THEN 0
    ELSE LET pair == CHOOSE p \in pairs : TRUE
         IN  DblAdd(PairError(con, pair), SumOfErrors(con, pairs \ {pair}))

\* C9: fitIndexPairsFor(keyGroups, keyIndEOs, allCons) is empty for fewer
\* than two independent EOs; otherwise it has allCons.size() records, record
\* nn has second member nn and first member the sum over the pairs of the
\* reference data of RMSE(ro_box(allCons[nn]), ro_ref), divided by the
\* number of reference relative orientations.
C9_FitIndexPairs ==
    fpc = "fitted" =>
        IF Cardinality(DOMAIN keyIndEOs) < 2
        THEN fitIndexPairs = <<>>
        ELSE /\ Len(fitIndexPairs) = Len(allCons)
             /\ \A k \in 1..Len(allCons) :
                   /\ fitIndexPairs[k].second = k - 1
                   /\ Covered =>
                        fitIndexPairs[k].first =
                            DblOver(SumOfErrors(allCons[k], RefPairs),
                                    Cardinality(RefPairs))

C9_Witness ==
    /\ fpc = "fitted"
    /\ Covered
    /\ Cardinality(DOMAIN keyIndEOs) = 3
    /\ \E k \in 1..Len(fitIndexPairs) : fitIndexPairs[k].first = 0
    /\ \E k \in 1..Len(fitIndexPairs) : \E j \in 1..Len(fitIndexPairs) :
          0 < fitIndexPairs[k].first /\ fitIndexPairs[k].first < fitIndexPairs[j].first

----------------------------------------------------------------------------
\* Properties of the two-sided search

\* RMSE(boxRO_k[i], indRO_k[j]) for sensor k
SensorError(k, i, j) ==
    rmseBasisErrorBetween2(boxConROs[k][i].second, indConROs[k][j].second)

\* the slot of box convention i and ind convention j (both from 1)
SlotOf(i, j) == maxErrPairCons[(i - 1) * Len(indConROs[useSenKey]) + j]

BoxRange == 1..Len(boxConROs[useSenKey])

IndRange == 1..Len(indConROs[useSenKey])

\* C10: after computeMaxErrors over a non-empty useSenKeys the score in
\* the slot of (box convention i, ind convention j) is the maximum over the
\* sensors k of useSenKeys of RMSE(boxRO_k[i], indRO_k[j]): it is one of the
\* sensors' values and no sensor's value exceeds it; with a single sensor it
\* is that sensor's value.
C10_SlotIsMaximum ==
    (mpc = "computed" /\ useSenKeys # {}) =>
        \A i \in BoxRange : \A j \in IndRange :
            LET errs == { SensorError(k, i, j) : k \in useSenKeys }
            IN  /\ NaN \notin errs =>
                     /\ SlotOf(i, j).first \in errs
                     /\ \A err \in errs : err <= SlotOf(i, j).first
                /\ Cardinality(useSenKeys) = 1 => SlotOf(i, j).first \in errs

C10_Witness ==
    /\ mpc = "computed"
    /\ Cardinality(useSenKeys) = 2
    /\ \E i \in BoxRange : \E j \in IndRange :
          LET errFirst == SensorError(2, i, j)
              errLast  == SensorError(3, i, j)
          IN  /\ errFirst # NaN
              /\ errLast # NaN
              /\ 0 < errLast
              /\ errLast < errFirst
              /\ SlotOf(i, j).first = errFirst

\* the result of computeMaxErrors for the inputs of the run
ComputedSlots ==
    computeMaxErrors(useSenKeys, boxConROs, indConROs, maxErrPairCons).slots

\* the smallest id among the ind conventions
FirstIndId(k) ==
    \A j \in IndRange :
        ~Int64Less(indConROs[useSenKey][j].first, indConROs[useSenKey][k].first)

\* some pair of conventions with a zero score has a box id below every
\* ind id
ZeroBelowInd ==
    \E s \in 1..Len(maxErrPairCons) : \E k \in IndRange :
        /\ FirstIndId(k)
        /\ maxErrPairCons[s].first = 0
        /\ Int64Less(maxErrPairCons[s].second[1],
                     indConROs[useSenKey][k].first)

\* C11 as stated: with the ind ParmGroups identical to the box ParmGroups
\* the first entry of the sorted result has score 0 and names the same
\* convention for box and ind.
C11_IdentityBest ==
    (mpc = "sorted" /\ indPGs = boxPGs) =>
        /\ maxErrPairCons[1].first = 0
        /\ maxErrPairCons[1].second[1] = maxErrPairCons[1].second[2]

\* C11 with the ties taken into account: with the ind ParmGroups identical
\* to the box ParmGroups the first entry of the sorted result has score 0,
\* no entry with score 0 has a smaller (box id, ind id), the box id of the
\* first entry is not above its ind id, and with two or more sensors the
\* two ids are equal exactly when no box convention with an id below every
\* ind id scores 0 as well (with one sensor every entry is the zero entry).
C11_IdentityBestUpToTies ==
    (mpc = "sorted" /\ indPGs = boxPGs) =>
        /\ maxErrPairCons[1].first = 0
        /\ \A s \in 1..Len(maxErrPairCons) :
              maxErrPairCons[s].first = 0 =>
                  ~PairConIdLess(maxErrPairCons[s].second,
                                 maxErrPairCons[1].second)
        /\ ~Int64Less(maxErrPairCons[1].second[2], maxErrPairCons[1].second[1])
        /\ useSenKeys # {} =>
              ((maxErrPairCons[1].second[1] = maxErrPairCons[1].second[2])
                  <=> ~ZeroBelowInd)
        /\ useSenKeys = {} => maxErrPairCons[1] = zeroErrPairCon

\* a run where the first entry names two different conventions
C11_TieWitness ==
    /\ mpc = "sorted"
    /\ indPGs = boxPGs
    /\ useSenKeys # {}
    /\ maxErrPairCons[1].first = 0
    /\ Int64Less(maxErrPairCons[1].second[1], maxErrPairCons[1].second[2])

C11_Witness ==
    /\ mpc = "sorted"
    /\ indPGs = boxPGs
    /\ Cardinality(useSenKeys) = 2
    /\ boxPGs[1] # boxPGs[2]
    /\ maxErrPairCons[1].first = 0
    /\ maxErrPairCons[1].second[1] = maxErrPairCons[1].second[2]
    /\ maxErrPairCons[1].second[1] # Int64Zero
    /\ \E s \in 1..Len(maxErrPairCons) : 0 < maxErrPairCons[s].first

\* the number of positions of seq that hold entry
CountIn(seq, entry) == Cardinality({k \in 1..Len(seq) : seq[k] = entry})

\* (score, (box id, ind id)) of pairA strictly before that of pairB: the
\* smaller score, or the same score and the smaller id pair
RankedBefore(pairA, pairB) ==
    \/ /\ pairA.first # NaN
       /\ pairB.first # NaN
       /\ pairA.first < pairB.first
    \/ /\ pairA.first = pairB.first
       /\ \/ Int64Less(pairA.second[1], pairB.second[1])
          \/ /\ pairA.second[1] = pairB.second[1]
             /\ Int64Less(pairA.second[2], pairB.second[2])

\* C12: the sorted result holds the entries of computeMaxErrors, each as
\* often as computed, in ascending order of score and, among equal scores,
\* in ascending order of (box id, ind id); two entries not in that strict
\* order are the same entry, so the arrangement is the only one and a
\* second run on the same inputs gives the same sequence.
C12_RankedPermutation ==
    mpc = "sorted" =>
        LET computed == ComputedSlots
        IN  /\ Len(maxErrPairCons) = Len(computed)
            /\ \A s \in 1..Len(computed) :
                  CountIn(maxErrPairCons, computed[s])
                      = CountIn(computed, computed[s])
            /\ \A s \in 1..(Len(maxErrPairCons) - 1) :
                  \/ RankedBefore(maxErrPairCons[s], maxErrPairCons[s + 1])
                  \/ maxErrPairCons[s] = maxErrPairCons[s + 1]
            /\ maxErrPairCons = SortErrPairCons(computed)

C12_Witness ==
    /\ mpc = "sorted"
    /\ Cardinality(useSenKeys) = 2
    /\ maxErrPairCons # ComputedSlots
    /\ \E s \in 1..(Len(maxErrPairCons) - 1) :
          /\ 0 < maxErrPairCons[s].first
          /\ maxErrPairCons[s].first = maxErrPairCons[s + 1].first
          /\ maxErrPairCons[s].second # maxErrPairCons[s + 1].second
    /\ \E s \in 1..(Len(maxErrPairCons) - 1) :
          /\ maxErrPairCons[s].first # NaN
          /\ maxErrPairCons[s].first < maxErrPairCons[s + 1].first

----------------------------------------------------------------------------
\* Properties of the ranking and of the trial result

\* the scores of the list given to trialResultFrom
NumbersOnly == \A k \in 1..Len(trialPairs) : trialPairs[k].first # NaN

\* C13: in the ranking no entry with a NaN score compares less than an
\* entry with a finite score, and in the sorted list no entry with a NaN
\* score stands before an entry with a finite score.
C13_NaNNeverBeforeFinite ==
    tpc = "returned" =>
        \A i \in 1..Len(fitNdxs) : \A j \in 1..Len(fitNdxs) :
            (fitNdxs[i].first = NaN /\ fitNdxs[j].first # NaN) =>
                /\ ~FitNdxPairLess(fitNdxs[i], fitNdxs[j])
                /\ ~(i < j)

\* the same for the lists on which the sort is defined
C13_NaNNeverBeforeFiniteDefined ==
    (tpc = "returned" /\ IsStrictWeakOrder(trialPairs)) =>
        \A i \in 1..Len(fitNdxs) : \A j \in 1..Len(fitNdxs) :
            (fitNdxs[i].first = NaN /\ fitNdxs[j].first # NaN) => ~(i < j)

\* the scores of the list in ascending order (for lists of numbers)
RECURSIVE AscendingScores(_)
AscendingScores(scores) ==
    IF scores = {} THEN <<>>
    ELSE LET least == CHOOSE x \in scores : \A y \in scores : x <= y
         IN  <<least>> \o AscendingScores(scores \ {least})

\* scores of the list, smallest first, each as often as it occurs
RankedScores ==
    LET byScore == AscendingScores({trialPairs[k].first : k \in 1..Len(trialPairs)})
        times(x) == Cardinality({k \in 1..Len(trialPairs) : trialPairs[k].first = x})
        RECURSIVE spread(_)
        spread(seq) ==
            IF seq = <<>> THEN <<>>
            ELSE [k \in 1..times(Head(seq)) |-> Head(seq)] \o spread(Tail(seq))
    IN  spread(byScore)

\* C14: for a list of two or more fit errors (numbers) the result of
\* trialResultFrom has the smallest error in the1st, the second smallest in
\* the2nd and the largest in theEnd, and prominence() is
\* (the2nd - the1st) / largest where the largest is above 0, NaN otherwise.
C14_TrialResult ==
    (tpc = "reported" /\ NumbersOnly /\ 2 <= Len(trialPairs)) =>
        LET ranked == RankedScores
            worst  == ranked[Len(ranked)]
        IN  /\ trialResult.the1st.theFitError = ranked[1]
            /\ trialResult.the2nd.theFitError = ranked[2]
            /\ trialResult.theEnd.theFitError = worst
            /\ prom = IF 0 < worst
                      THEN ((ranked[2] - ranked[1]) * RealUnit) \div worst
                      ELSE NaN

\* the same for lists of three or more
C14_TrialResultFromThree ==
    (tpc = "reported" /\ NumbersOnly /\ 3 <= Len(trialPairs)) =>
        LET ranked == RankedScores
            worst  == ranked[Len(ranked)]
        IN  /\ trialResult.the1st.theFitError = ranked[1]
            /\ trialResult.the2nd.theFitError = ranked[2]
            /\ trialResult.theEnd.theFitError = worst
            /\ prom = IF 0 < worst
                      THEN ((ranked[2] - ranked[1]) * RealUnit) \div worst
                      ELSE NaN

----------------------------------------------------------------------------
\* Properties of the transforms

DistinctNonzero(vals) ==
    /\ \A k \in 1..3 : vals[k] # 0
    /\ vals[1] # vals[2] /\ vals[1] # vals[3] /\ vals[2] # vals[3]

Magnitudes(vals) == [k \in 1..3 |-> IF vals[k] < 0 THEN -vals[k] ELSE vals[k]]

\* conA and conB differ in the offset sub-convention only
OffsetOnly ==
    /\ conA.theConvOff # conB.theConvOff
    /\ conA.theConvAng = conB.theConvAng
    /\ conA.theOrder = conB.theOrder

C16_TransformRule ==
    xpc = "paired" =>
        LET att    == attitudeFor(conA.theConvAng, xfmPG)
            offset == offsetFor(conA.theConvOff, xfmPG)
            entry  == xfmConOris[IF conA.theOrder = TranRot THEN 1 ELSE 2]
        IN  /\ xfmA.valid
            /\ xfmA.att = att
            /\ conA.theOrder = TranRot => xfmA.loc = offset
            /\ conA.theOrder = RotTran =>
                   /\ xfmA.loc = AttApply(AttInverse(att), offset)
                   /\ AttApply(att, xfmA.loc) = offset
            /\ Len(xfmConOris) = 2
            /\ entry.first = numberEncoding(conA)
            /\ entry.second = xfmA

C16_Witness ==
    /\ xpc = "paired"
    /\ conA.theOrder = RotTran
    /\ xfmA.att # AttIdentity
    /\ xfmA.loc # offsetFor(conA.theConvOff, xfmPG)
    /\ xfmA.loc # AttApply(xfmA.att, offsetFor(conA.theConvOff, xfmPG))
    /\ xfmConOris[2].second = xfmA
    /\ xfmConOris[1].second # xfmA

\* the signed size and the plane of element i (from 0) of the angle
\* sub-convention
SignedSize(convAng, parmGroup, i) ==
    convAng.theAngSigns[i + 1] * parmGroup.theAngles[convAng.theAngIndices[i + 1] + 1]

PlaneRotation(convAng, parmGroup, i) ==
    AttitudeOf(SignedSize(convAng, parmGroup, i), convAng.theBivIndices[i + 1])

----------------------------------------------------------------------------
\* Properties of the loaders

\* the sensor keys of the streams
IoKeys == {"k1", "k2"}

\* the words of a line that are not comment
ActiveWords(line) == SkipWhite(withoutComment(line))

\* the line is a record of keyword kw for key k carrying three numbers
CarriesThree(line, kw, k) ==
    LET r == ActiveWords(line)
    IN  /\ Len(r) >= 5
        /\ r[1] = kw
        /\ r[2] = k
        /\ \A i \in 3..5 : r[i] \in NumberWords

\* the line is a record of keyword kw for key k with two numbers and one
\* more word
CarriesTwoAndWord(line, kw, k) ==
    LET r == ActiveWords(line)
    IN  /\ Len(r) >= 5
        /\ r[1] = kw
        /\ r[2] = k
        /\ \A i \in 3..4 : r[i] \in NumberWords

\* the line is a Convention record for key k with six words of three
\* signs, three indices (three times) and one order
CarriesConvention(line, k) ==
    LET r == ActiveWords(line)
    IN  /\ Len(r) >= 8
        /\ r[1] = "Convention:"
        /\ r[2] = k
        /\ \A i \in {3, 5} :
              /\ Len(CharsOf(r[i])) = 3
              /\ \A c \in 1..3 : CharsOf(r[i])[c] \in {"+", "-"}
        /\ \A i \in {4, 6, 7} :
              /\ Len(CharsOf(r[i])) = 3
              /\ \A c \in 1..3 : CharsOf(r[i])[c] \in {"0", "1", "2"}
        /\ r[8] \in {"0", "1"}

\* the line is a Convention record for key k with six words of the lengths
\* 3, 3, 3, 3, 3, 1
CarriesSixWords(line, k) ==
    LET r == ActiveWords(line)
    IN  /\ Len(r) >= 8
        /\ r[1] = "Convention:"
        /\ r[2] = k
        /\ \A i \in 3..7 : Len(CharsOf(r[i])) = 3
        /\ Len(CharsOf(r[8])) = 1

\* C18: loadParmGroups emits a ParmGroup for key k if and only if the input
\* holds a 'Distances: k' record and an 'Angles: k' record that each carry
\* three numbers; comments, blank lines, other keywords and a key with one
\* record only create no entry.
C18_ParmGroupIff ==
    (ipc = "returned" /\ loader = "loadParmGroups") =>
        \A k \in IoKeys :
           (k \in DOMAIN ioPGs)
              <=> /\ \E line \in lines :
                        CarriesThree(line, "Distances:", k)
                  /\ \E line \in lines :
                        CarriesThree(line, "Angles:", k)

\* what loadParmGroups does: two numbers and any third word are enough
C18_ParmGroupIffTwoNumbers ==
    (ipc = "returned" /\ loader = "loadParmGroups") =>
        \A k \in IoKeys :
           (k \in DOMAIN ioPGs)
              <=> /\ \E line \in lines :
                        CarriesTwoAndWord(line, "Distances:", k)
                  /\ \E line \in lines :
                        CarriesTwoAndWord(line, "Angles:", k)

\* C19: the loader of independent EOs emits an orientation for key k if and
\* only if the input holds a valid 'Convention:' record, a valid
\* 'Distances:' record and a valid 'Angles:' record for k, and the
\* orientation is transformFor of the convention applied to the distances
\* and angles of k.
C19_OrientationIff ==
    (ipc = "returned" /\ loader # "loadParmGroups") =>
        \A k \in IoKeys :
           /\ (k \in DOMAIN ioOris)
                 <=> /\ \E line \in lines : CarriesConvention(line, k)
                     /\ \E line \in lines :
                           CarriesThree(line, "Distances:", k)
                     /\ \E line \in lines :
                           CarriesThree(line, "Angles:", k)
           /\ (k \in DOMAIN ioOris) =>
                 ioOris[k] = transformFor(keyConventions[k],
                                ParmGroup(keyDistances[k], keyAngles[k]))

\* what the loaders of independent EOs do: six words of the right lengths,
\* the loader's own keyword for the distances, two numbers and any third
\* word
C19_OrientationIffAccepted ==
    (ipc = "returned" /\ loader # "loadParmGroups") =>
        \A k \in IoKeys :
           (k \in DOMAIN ioOris)
              <=> /\ \E line \in lines : CarriesSixWords(line, k)
                  /\ \E line \in lines :
                        CarriesTwoAndWord(line, LocKeyword(loader), k)
                  /\ \E line \in lines :
                        CarriesTwoAndWord(line, "Angles:", k)

\* C20: a 'Convention:' record that is no valid convention encoding is
\* dropped: as long as no valid one was read for its key no Convention is
\* stored and no orientation is emitted for that key, and the other sensor
\* is loaded.
C20_InvalidConventionDropped ==
    (ipc \in {"reading", "returned"} /\ loader # "loadParmGroups") =>
        /\ \A k \in IoKeys :
              (~ \E line \in lines : CarriesConvention(line, k))
                 => /\ k \notin DOMAIN keyConventions
                    /\ ipc = "returned" => k \notin DOMAIN ioOris
        /\ ipc = "returned" => "k2" \in DOMAIN ioOris

\* what the loaders do: a record with a word of wrong length (or a word
\* missing) is dropped
C20_WrongLengthDropped ==
    (ipc \in {"reading", "returned", "undefined"}
        /\ loader # "loadParmGroups") =>
        /\ \A k \in IoKeys :
              (~ \E line \in lines : CarriesSixWords(line, k))
                 => /\ k \notin DOMAIN keyConventions
                    /\ ipc = "returned" => k \notin DOMAIN ioOris
        /\ ipc = "returned" => "k2" \in DOMAIN ioOris

----------------------------------------------------------------------------
\* The programs OriAnalysis2 and OriAnalysis from the command line to the
\* return of main: invocation check, loading, the precondition assertions,
\* the search, the exit code. A file is given by the ParmGroup map that
\* loadParmGroups returns for it.

MaxAppSensors == 3

Apps == {"OriAnalysis2", "OriAnalysis"}

\* argc of an invocation with 1 to 4 arguments after the program name
ArgCounts == 2..5

\* the ParmGroups a box file holds for a sensor key
AppBoxPG(key) == sKeyGroups[key]

\* the ParmGroups an ind file holds for a sensor key
AppIndPG(key) == sKeyGroups[key + 1]

AppFiles ==
    { [exists |-> FALSE, keys |-> {}] }
        \cup { [exists |-> TRUE, keys |-> keys] :
                   keys \in SUBSET (1..MaxAppSensors) }

\* boxConOffs, boxConAngs and indConAngs of main, two conventions each
appBoxConOffs ==
    << ConventionOffset_allConventions[31], ConventionOffset_allConventions[43] >>

appConAngs ==
    << ConventionAngle_allConventions[1], ConventionAngle_allConventions[576] >>

\* allBoxCons and allIndEoCons of OriAnalysis, two conventions each
appAllBoxCons == << Convention_allConventions[1], Convention_allConventions[20000] >>

appAllIndEoCons ==
    << allConventionsFor(indConOffs[1])[1], allConventionsFor(indConOffs[1])[2] >>

AppInit ==
    /\ apc = "start"
    /\ app \in Apps
    /\ argc \in ArgCounts
    /\ boxFile \in AppFiles
    /\ indFile \in AppFiles
    /\ appBoxPGs = None
    /\ appIndPGs = None
    /\ appUseKey = None
    /\ appBoxOris = None
    /\ appIndOris = None
    /\ appBoxROs = None
    /\ appIndROs = None
    /\ appResult = None
    /\ appCalls = << >>
    /\ exitCode = None
    /\ diag = <<>>
    /\ CoreIdle
    /\ TrialIdle
    /\ XfmIdle
    /\ IoIdle
    /\ CallIdle

\* Usage::Usage: the paths are taken from the command line for the
\* expected number of words, and stay empty otherwise
Usage_pathsSet(theApp, theArgc) ==
    IF theApp = "OriAnalysis2" THEN 4 = theArgc ELSE 2 < theArgc

\* Usage::isValid: exists(theBoxPGPath) && exists(theBoxPGPath)
Usage_isValid(theApp, theArgc, theBoxFile) ==
    /\ Usage_pathsSet(theApp, theArgc)
    /\ theBoxFile.exists
    /\ theBoxFile.exists

\* main: Usage use(argc, argv); if (! use.isValid()) return 1;
CheckUsage ==
    /\ apc = "start"
    /\ diag' = IF Usage_pathsSet(app, argc) THEN diag
               ELSE Append(diag, "Bad invocation")
    /\ IF Usage_isValid(app, argc, boxFile)
       THEN /\ apc' = "valid"
            /\ exitCode' = exitCode
       ELSE /\ apc' = "exit"
            /\ exitCode' = 1
    /\ appCalls' = Append(appCalls, "Usage")
    /\ UNCHANGED <<app, argc, boxFile, indFile, appBoxPGs, appIndPGs,
                   appUseKey, appBoxOris, appIndOris, appBoxROs, appIndROs,
                   appResult, coreVars, trialVars, xfmVars, ioVars,
                   callVars>>

\* loadParmGroups(ifs) on a stream of the file; a file that does not exist
\* gives a stream that delivers nothing
LoadedFrom(file, pgOf(_)) ==
    IF file.exists THEN [key \in file.keys |-> pgOf(key)] ELSE EmptyMap

\* main: boxPGs and indPGs are loaded
LoadParmGroups ==
    /\ apc = "valid"
    /\ appBoxPGs' = LoadedFrom(boxFile, AppBoxPG)
    /\ appIndPGs' = LoadedFrom(indFile, AppIndPG)
    /\ apc' = "loaded"
    /\ appCalls' = Append(appCalls, "loadParmGroups")
    /\ UNCHANGED <<app, argc, boxFile, indFile, appUseKey, appBoxOris,
                   appIndOris, appBoxROs, appIndROs, appResult, exitCode,
                   diag, coreVars, trialVars, xfmVars, ioVars,
                   callVars>>

\* the two assertExit calls of main, as the messages they print; none for
\* maps that pass
AssertMessages(thePGsBox, thePGsInd) ==
    IF Cardinality(DOMAIN thePGsBox) # Cardinality(DOMAIN thePGsInd)
    THEN << "Assert Error!", "{box,ind}PGs.size() error" >>
    ELSE IF DOMAIN thePGsBox = {}
         THEN << "Assert Error!", "!{box,ind}PGs.empty() error" >>
         ELSE << >>

\* main of OriAnalysis2: the assertions, then useSenKey
AssertPreconditions ==
    /\ apc = "loaded"
    /\ app = "OriAnalysis2"
    /\ LET msgs == AssertMessages(appBoxPGs, appIndPGs)
       IN  IF msgs # << >>
           THEN /\ diag' = diag \o msgs
                /\ exitCode' = 1
                /\ apc' = "exit"
                /\ appUseKey' = appUseKey
           ELSE /\ appUseKey' = SortedKeys(DOMAIN appBoxPGs)[1]
                /\ apc' = "asserted"
                /\ UNCHANGED <<diag, exitCode>>
    /\ appCalls' = Append(appCalls, "assertExit")
    /\ UNCHANGED <<app, argc, boxFile, indFile, appBoxPGs, appIndPGs,
                   appBoxOris, appIndOris, appBoxROs, appIndROs, appResult,
                   coreVars, trialVars, xfmVars, ioVars,
                   callVars>>

\* main of OriAnalysis2: boxConOris and indConOris
AppConventionOrientations ==
    /\ apc = "asserted"
    /\ appBoxOris' = conventionOrientationsFor(appBoxConOffs, appConAngs, appBoxPGs)
    /\ appIndOris' = conventionOrientationsFor(indConOffs, appConAngs, appIndPGs)
    /\ apc' = "oriented"
    /\ appCalls' = Append(appCalls, "conventionOrientationsFor")
    /\ UNCHANGED <<app, argc, boxFile, indFile, appBoxPGs, appIndPGs,
                   appUseKey, appBoxROs, appIndROs, appResult, exitCode,
                   diag, coreVars, trialVars, xfmVars, ioVars,
                   callVars>>

\* main of OriAnalysis2: boxConROs and indConROs; conventionROsWrtUseKey
\* reads itBase->second without comparing itBase with eoConOris.end()
AppConventionROs ==
    /\ apc = "oriented"
    /\ IF appUseKey \in DOMAIN appBoxOris /\ appUseKey \in DOMAIN appIndOris
       THEN /\ appBoxROs' = conventionROsWrtUseKey(appBoxOris, appUseKey)
            /\ appIndROs' = conventionROsWrtUseKey(appIndOris, appUseKey)
            /\ apc' = "relative"
       ELSE /\ apc' = "undefined"
            /\ UNCHANGED <<appBoxROs, appIndROs>>
    /\ appCalls' = Append(appCalls, "conventionROsWrtUseKey")
    /\ UNCHANGED <<app, argc, boxFile, indFile, appBoxPGs, appIndPGs,
                   appUseKey, appBoxOris, appIndOris, appResult, exitCode,
                   diag, coreVars, trialVars, xfmVars, ioVars,
                   callVars>>

\* main of OriAnalysis2: senKeys, useSenKeys, resize, computeMaxErrors,
\* std::sort, report, return 0
AppMaxErrorSearch ==
    /\ apc = "relative"
    /\ LET senKeys == commonBetween(appBoxROs, appIndROs)
           keysToUse == senKeys \ {appUseKey}
           boxNumCons == 2 * Len(appBoxConOffs) * Len(appConAngs)
           indNumCons == 2 * Len(indConOffs) * Len(appConAngs)
           sized == [k \in 1..(boxNumCons * indNumCons) |-> zeroErrPairCon]
           out == computeMaxErrors(keysToUse, appBoxROs, appIndROs, sized)
       IN  IF out.exits
           THEN /\ diag' = diag \o << "Assert Error!", "pairConId" >>
                /\ exitCode' = 1
                /\ apc' = "exit"
                /\ appResult' = out.slots
           ELSE IF MixedNaN(out.slots)
                THEN /\ apc' = "undefined"
                     /\ appResult' = out.slots
                     /\ UNCHANGED <<diag, exitCode>>
                ELSE /\ appResult' = SortErrPairCons(out.slots)
                     /\ exitCode' = 0
                     /\ apc' = "exit"
                     /\ diag' = diag
    /\ appCalls' = Append(appCalls, "computeMaxErrors")
    /\ UNCHANGED <<app, argc, boxFile, indFile, appBoxPGs, appIndPGs,
                   appUseKey, appBoxOris, appIndOris, appBoxROs, appIndROs,
                   coreVars, trialVars, xfmVars, ioVars,
                   callVars>>

\* indKeyOrisFor(keyIndPGs, currIndEoCon)
indKeyOrisFor(keyIndPGs, currIndEoCon) ==
    [key \in DOMAIN keyIndPGs |-> transformFor(currIndEoCon, keyIndPGs[key])]

\* main of OriAnalysis: for every ind convention the fit errors of all box
\* conventions, sorted; then return 3
AppFitSearch ==
    /\ apc = "loaded"
    /\ app = "OriAnalysis"
    /\ LET orisFor(n) == indKeyOrisFor(appIndPGs, appAllIndEoCons[n])
           derefs == \E n \in 1..Len(appAllIndEoCons) :
                        /\ 1 < Cardinality(DOMAIN appIndPGs)
                        /\ DerefsEnd(appBoxPGs,
                               relativeOrientationBetweens(orisFor(n)))
           fits == [n \in 1..Len(appAllIndEoCons) |->
                       SortPairs(fitIndexPairsFor(appBoxPGs, orisFor(n),
                                     appAllBoxCons, NullParmGroup))]
       IN  IF derefs
           THEN /\ apc' = "undefined"
                /\ UNCHANGED <<appResult, exitCode, diag>>
           ELSE /\ appResult' = fits
                /\ diag' = IF \E n \in 1..Len(appResult') :
                                  appResult'[n] = << >>
                           THEN Append(diag, "Error: No results to report")
                           ELSE diag
                /\ exitCode' = 3
                /\ apc' = "exit"
    /\ appCalls' = Append(appCalls, "fitIndexPairsFor")
    /\ UNCHANGED <<app, argc, boxFile, indFile, appBoxPGs, appIndPGs,
                   appUseKey, appBoxOris, appIndOris, appBoxROs, appIndROs,
                   coreVars, trialVars, xfmVars, ioVars,
                   callVars>>

AppNext ==
    \/ CheckUsage
    \/ LoadParmGroups
    \/ AssertPreconditions
    \/ AppConventionOrientations
    \/ AppConventionROs
    \/ AppMaxErrorSearch
    \/ AppFitSearch

SpecApp == AppInit /\ [][AppNext]_vars

\* the search has been entered (computeMaxErrors or fitIndexPairsFor)
Called(fn) == \E k \in 1..Len(appCalls) : appCalls[k] = fn

SearchAttempted == Called("computeMaxErrors") \/ Called("fitIndexPairsFor")

\* the two loaded maps do not have the same keys
KeySetsDiffer == DOMAIN appBoxPGs # DOMAIN appIndPGs

\* main of OriAnalysis2 is past the precondition assertions
PastAssertions == app = "OriAnalysis2" /\ Called("assertExit")

\* C21: OriAnalysis2 hard-fails with a diagnostic, before any relative
\* orientation is computed or any lookup result is read, whenever the box
\* and ind maps do not have the same key set (which includes a base key
\* that the ind map lacks)
C21_HardFailOnKeyMismatch ==
    (PastAssertions /\ KeySetsDiffer)
        => /\ apc = "exit"
           /\ exitCode # 0
           /\ diag # << >>
           /\ ~ Called("conventionROsWrtUseKey")

\* C21, the part that holds: maps of different sizes and an empty box map
\* end the program with a diagnostic and exit code 1 before any orientation
C21_HardFailOnSizes ==
    (/\ PastAssertions
     /\ \/ Cardinality(DOMAIN appBoxPGs) # Cardinality(DOMAIN appIndPGs)
        \/ DOMAIN appBoxPGs = {})
        => /\ apc = "exit"
           /\ exitCode = 1
           /\ diag # << >>
           /\ ~ Called("conventionOrientationsFor")
           /\ ~ Called("conventionROsWrtUseKey")

\* the invocation is bad or one of the two input files is missing
BadInvocationOrMissingFile ==
    \/ ~ Usage_pathsSet(app, argc)
    \/ ~ boxFile.exists
    \/ ~ indFile.exists

\* the sensors that both files describe
AvailableSensors == boxFile.keys \cap indFile.keys

\* C22: the exit code is 0 after a completed search, 1 for a bad invocation
\* or a missing input file, 2 when fewer than two sensors are available, and
\* in every nonzero case the search is not attempted
C22_ExitCodes ==
    apc = "exit"
        => /\ exitCode =
                IF BadInvocationOrMissingFile THEN 1
                ELSE IF Cardinality(AvailableSensors) < 2 THEN 2
                ELSE 0
           /\ exitCode = 0 => SearchAttempted
           /\ exitCode # 0 => ~ SearchAttempted

\* C22, the part that holds: a bad invocation or a missing box file ends
\* either program with exit code 1 before anything is loaded
C22_ExitOneOnUsage ==
    (apc # "start" /\ (~ Usage_pathsSet(app, argc) \/ ~ boxFile.exists))
        => /\ apc = "exit"
           /\ exitCode = 1
           /\ ~ Called("loadParmGroups")
           /\ ~ SearchAttempted

\* the two calls of conventionROsWrtUseKey in main: input and output
AppROCalls == { <<appBoxOris, appBoxROs>>, <<appIndOris, appIndROs>> }

\* C23: conventionROsWrtUseKey, for vectors of equal length and a base key u
\* of the map, returns a map with the same keys in which slot i of sensor k
\* holds the id of slot i and ori_k[i] * inverse(ori_u[i]); every slot of
\* sensor u holds the identity, and the ids are those of the input
C23_RelativeToUseKey ==
    (app = "OriAnalysis2" /\ apc = "relative")
        => \A call \in AppROCalls :
              LET eoConOris == call[1]
                  roConOris == call[2]
              IN  /\ DOMAIN roConOris = DOMAIN eoConOris
                  /\ \A k \in DOMAIN eoConOris :
                        /\ Len(roConOris[k]) = Len(eoConOris[k])
                        /\ \A i \in 1..Len(eoConOris[k]) :
                              /\ roConOris[k][i].first = eoConOris[k][i].first
                              /\ roConOris[k][i].second =
                                     OriMul(eoConOris[k][i].second,
                                            OriInverse(eoConOris[appUseKey][i].second))
                  /\ \A i \in 1..Len(roConOris[appUseKey]) :
                        roConOris[appUseKey][i].second = IdentityTransform

\* three sensors, the base sensor not at the origin, and a relative
\* orientation that is not the identity
C23_Witness ==
    /\ app = "OriAnalysis2"
    /\ apc = "relative"
    /\ Cardinality(DOMAIN appIndROs) = 3
    /\ appIndOris[appUseKey][1].second # IdentityTransform
    /\ \E k \in DOMAIN appIndROs :
          appIndROs[k][1].second # IdentityTransform

\* C24: in computeMaxErrors with the result vector preallocated to |B|*|I|
\* and per-sensor vectors of one id sequence, every sensor pass writes
\* exactly the slots 0..|B|*|I|-1 (here 1..|B|*|I|), slot i*|I|+j holds the
\* id pair (boxId_i, indId_j), no write lands outside the vector and the
\* assertExit on the ids never fires
C24_SlotLayout ==
    /\ mpc # "exited"
    /\ mpc = "sized"
          => \A key \in useSenKeys :
                SensorPass(TRUE, maxErrPairCons, boxConROs[key],
                           indConROs[key]).written
                    = 1..Len(maxErrPairCons)
    /\ (mpc = "computed" /\ useSenKeys # {})
          => LET boxIds == boxConOris[useSenKey]
                 indIds == indConOris[useSenKey]
                 numInd == Len(indIds)
             IN  /\ Len(maxErrPairCons) = Len(boxIds) * numInd
                 /\ \A i \in 0..(Len(boxIds) - 1) :
                       \A j \in 0..(numInd - 1) :
                          maxErrPairCons[i * numInd + j + 1].second
                              = << boxIds[i + 1].first, indIds[j + 1].first >>

\* two sensors were processed into a vector of 8 * 4 slots
C24_Witness ==
    /\ mpc = "computed"
    /\ Cardinality(useSenKeys) = 2
    /\ Len(maxErrPairCons) = 32
    /\ maxErrPairCons[6].second
          = << boxConOris[useSenKey][2].first, indConOris[useSenKey][2].first >>

----------------------------------------------------------------------------
\* Single calls of functions without state: the index values of the offset
\* and angle conventions and the comparison of two trial results.

\* ConventionOffset::indexValue
ConventionOffset_indexValue(con) ==
    LET numSgn == numberForSigns(con.theOffSigns)
        numNdx == numberForIndices(con.theOffIndices)
    IN  (numSgn * 27) + numNdx

\* an index value that leaves one factor 27 out
ConventionAngle_indexValueOneFactor(con) ==
    LET numAngSgn == numberForSigns(con.theAngSigns)
        numAngNdx == numberForIndices(con.theAngIndices)
        numBivNdx == numberForIndices(con.theBivIndices)
    IN  (numAngSgn * 27) + (numAngNdx * 27) + numBivNdx

\* ConventionAngle::indexValue
ConventionAngle_indexValue(con) ==
    LET numAngSgn == numberForSigns(con.theAngSigns)
        numAngNdx == numberForIndices(con.theAngIndices)
        numBivNdx == numberForIndices(con.theBivIndices)
    IN  (numAngSgn * 27 * 27) + (numAngNdx * 27) + numBivNdx

\* -a of a double
DblNeg(a) == IF a = NaN THEN NaN ELSE 0 - a

\* operator< of std::pair<double, double>
DblPairLess(pairA, pairB) ==
    \/ DblLess(pairA[1], pairB[1])
    \/ /\ ~DblLess(pairB[1], pairA[1])
       /\ DblLess(pairA[2], pairB[2])

\* a comparison that uses the prominence as it is
TrialLessPlainProminence(trA, trB) ==
    LET pairA == << trA.the1st.theFitError, prominence(trA) >>
        pairB == << trB.the1st.theFitError, prominence(trB) >>
    IN  DblPairLess(pairA, pairB)

\* operator<(OneTrialResult const & trA, OneTrialResult const & trB)
TrialLess(trA, trB) ==
    LET pairA == << trA.the1st.theFitError, DblNeg(prominence(trA)) >>
        pairB == << trB.the1st.theFitError, DblNeg(prominence(trB)) >>
    IN  DblPairLess(pairA, pairB)

\* trial results with best, second and worst fit error of any kind (the
\* difference of two errors is never 0.01)
TrialResultPool ==
    { OneTrialResult(OneSolutionFit(err1st, <<>>, <<>>),
                     OneSolutionFit(err2nd, <<>>, <<>>),
                     OneSolutionFit(errEnd, <<>>, <<>>)) :
          err1st \in {0, 50, NaN}, err2nd \in {0, 50, 200, NaN}, errEnd \in {0, 200, NaN} }

Range(seq) == { seq[k] : k \in 1..Len(seq) }

CallFns ==
    { "ConventionOffset::indexValue", "ConventionAngle::indexValue",
      "operator<" }

CallInit ==
    /\ qpc = "call"
    /\ callFn \in CallFns
    /\ CASE callFn = "ConventionOffset::indexValue" ->
              callArgs \in Range(ConventionOffset_allConventions)
         [] callFn = "ConventionAngle::indexValue" ->
              callArgs \in Range(ConventionAngle_allConventions)
         [] callFn = "operator<" ->
              callArgs \in TrialResultPool \X TrialResultPool
    /\ callResult = None
    /\ CoreIdle
    /\ TrialIdle
    /\ XfmIdle
    /\ IoIdle
    /\ AppIdle

OffsetIndexValue ==
    /\ qpc = "call"
    /\ callFn = "ConventionOffset::indexValue"
    /\ callResult' = ConventionOffset_indexValue(callArgs)
    /\ qpc' = "returned"
    /\ UNCHANGED <<callFn, callArgs, coreVars, trialVars, xfmVars, ioVars,
                   appVars>>

AngleIndexValue ==
    /\ qpc = "call"
    /\ callFn = "ConventionAngle::indexValue"
    /\ callResult' = ConventionAngle_indexValue(callArgs)
    /\ qpc' = "returned"
    /\ UNCHANGED <<callFn, callArgs, coreVars, trialVars, xfmVars, ioVars,
                   appVars>>

TrialResultLess ==
    /\ qpc = "call"
    /\ callFn = "operator<"
    /\ callResult' = TrialLess(callArgs[1], callArgs[2])
    /\ qpc' = "returned"
    /\ UNCHANGED <<callFn, callArgs, coreVars, trialVars, xfmVars, ioVars,
                   appVars>>

CallNext ==
    \/ OffsetIndexValue
    \/ AngleIndexValue
    \/ TrialResultLess

SpecCall == CallInit /\ [][CallNext]_vars

Returned(fn) == qpc = "returned" /\ callFn = fn

\* a == b of doubles
DblEqual(a, b) == a # NaN /\ b # NaN /\ a = b

\* C25: operator< on OneTrialResult puts trial A before trial B exactly
\* when A's best score is smaller, or the best scores are equal and A's
\* prominence is larger
C25_TrialOrder ==
    Returned("operator<")
        => LET trA == callArgs[1]
               trB == callArgs[2]
               scoreA == trA.the1st.theFitError
               scoreB == trB.the1st.theFitError
           IN  callResult
                   <=> \/ DblLess(scoreA, scoreB)
                       \/ /\ DblEqual(scoreA, scoreB)
                          /\ DblLess(prominence(trB), prominence(trA))

\* equal best scores, A with the larger prominence: A is before B
C25_Witness ==
    /\ Returned("operator<")
    /\ callArgs[1].the1st.theFitError = 50
    /\ callArgs[2].the1st.theFitError = 50
    /\ prominence(callArgs[1]) = 75
    /\ prominence(callArgs[2]) = 0
    /\ callResult = TRUE

\* C26: the index value of every enumerated offset convention lies in
\* [0, 48), and the 48 conventions have pairwise distinct index values
C26_OffsetIndexRange ==
    Returned("ConventionOffset::indexValue")
        => /\ callResult \in 0..47
           /\ \A other \in Range(ConventionOffset_allConventions) :
                 other # callArgs
                     => ConventionOffset_indexValue(other) # callResult

\* C26, the part that holds: the index values lie in [0, 216), the range
\* indexValue names, and are pairwise distinct
C26_OffsetIndexDistinct ==
    Returned("ConventionOffset::indexValue")
        => /\ callResult \in 0..215
           /\ Len(ConventionOffset_allConventions) = 48
           /\ \A other \in Range(ConventionOffset_allConventions) :
                 other # callArgs
                     => ConventionOffset_indexValue(other) # callResult

\* size of the lookup table of testAttPerms
maxNdxValue == 5694

\* C27: the index value of every enumerated angle convention is
\* signBits*729 + angNdx*27 + bivNdx, smaller than 5694 (itself within
\* [0, 5832)), and the 576 conventions have pairwise distinct index values
C27_AngleIndex ==
    Returned("ConventionAngle::indexValue")
        => /\ callResult = numberForSigns(callArgs.theAngSigns) * 729
                           + numberForIndices(callArgs.theAngIndices) * 27
                           + numberForIndices(callArgs.theBivIndices)
           /\ callResult >= 0
           /\ callResult < maxNdxValue
           /\ maxNdxValue <= 5832
           /\ Len(ConventionAngle_allConventions) = 576
           /\ \A other \in Range(ConventionAngle_allConventions) :
                 other # callArgs
                     => ConventionAngle_indexValue(other) # callResult

\* the convention with the largest index value, 5693
C27_Witness ==
    /\ Returned("ConventionAngle::indexValue")
    /\ callResult = maxNdxValue - 1

----------------------------------------------------------------------------
\* the fit errors when every relative orientation with a key that has no
\* ParmGroup is passed over: the sums over the others, scaled by the number
\* of all relative orientations
fitIndexPairsSkipping(boxGroups, indEOs, allBoxCons) ==
    IF 1 < Cardinality(DOMAIN indEOs)
    THEN LET relOris == relativeOrientationBetweens(indEOs)
             bothFound(relOri) ==
                 /\ relOri.key.theKeyFrom \in DOMAIN boxGroups
                 /\ relOri.key.theKeyInto \in DOMAIN boxGroups
             sums == fitErrorByConvention(boxGroups,
                         SelectSeq(relOris, bothFound), allBoxCons,
                         NullParmGroup)
         IN  [k \in 1..Len(sums) |->
                 FitNdxPair(DblOver(sums[k], Len(relOris)), k - 1)]
    ELSE <<>>

\* C28: fitErrorByConvention reads the ParmGroups of key1 and key2 only
\* when both keys are in keyGroups; a relative orientation with a key that
\* has no ParmGroup is skipped and adds nothing to any accumulated error
C28_MissingKeySkipped ==
    /\ fpc # "crashed"
    /\ fpc = "fitted"
          => /\ ~ ( /\ 1 < Cardinality(DOMAIN keyIndEOs)
                    /\ DerefsEnd(keyGroups,
                                 relativeOrientationBetweens(keyIndEOs)) )
             /\ fitIndexPairs
                   = fitIndexPairsSkipping(keyGroups, keyIndEOs, allCons)

\* C28, the part that holds: where every key2 whose key1 is present has a
\* ParmGroup, the relative orientations without key1 are skipped and add
\* nothing
C28_MissingKey1Skipped ==
    (/\ fpc = "fitted"
     /\ ~ ( /\ 1 < Cardinality(DOMAIN keyIndEOs)
            /\ DerefsEnd(keyGroups, relativeOrientationBetweens(keyIndEOs)) ))
        => fitIndexPairs = fitIndexPairsSkipping(keyGroups, keyIndEOs, allCons)

\* a run in which the first of three sensors has no ParmGroup
C28_Key1Witness ==
    /\ fpc = "fitted"
    /\ DOMAIN keyIndEOs = {1, 2, 3}
    /\ DOMAIN keyGroups = {2, 3}
    /\ Len(fitIndexPairs) = MaxCons

----------------------------------------------------------------------------
\* the orders in which the sensors of a set can be processed
KeyOrders(keys) ==
    { order \in [1..Cardinality(keys) -> keys] :
          \A i \in DOMAIN order : \A j \in DOMAIN order :
              i # j => order[i] # order[j] }

\* the slots computeMaxErrors leaves when the sensors are taken in order
MaxErrorsInOrder(order) ==
    SensorLoop(order, 1, boxConROs, indConROs,
               [k \in 1..Len(maxErrPairCons) |-> zeroErrPairCon]).slots

\* C29: the final content of every computeMaxErrors slot does not depend
\* on the order in which the sensors of useSenKeys are processed, for all
\* per-sensor RMSE values including NaN
C29_OrderIndependent ==
    mpc = "computed"
        => \A order \in KeyOrders(useSenKeys) :
              MaxErrorsInOrder(order) = maxErrPairCons

\* some error of some sensor is NaN
SomeNaNError ==
    \E order \in KeyOrders(useSenKeys) :
        \E k \in 1..Len(maxErrPairCons) :
            MaxErrorsInOrder(order)[k].first = NaN

\* C29, the part that holds: without NaN among the errors the slots do not
\* depend on the order of the sensors
C29_OrderIndependentFinite ==
    (mpc = "computed" /\ ~ SomeNaNError)
        => \A order \in KeyOrders(useSenKeys) :
              MaxErrorsInOrder(order) = maxErrPairCons

----------------------------------------------------------------------------
\* the convention of slot k (counted from 1) in the loops of
\* conventionOrientationPairsFor: convTR and convRT of conOff within conAng
conventionOfSlot(conOffs, conAngs, k) ==
    LET numOffs == Len(conOffs)
    IN  Convention(conOffs[(((k - 1) \div 2) % numOffs) + 1],
                   conAngs[((k - 1) \div (2 * numOffs)) + 1],
                   IF (k - 1) % 2 = 0 THEN TranRot ELSE RotTran)

\* the conventions of all slots for the full enumerations of offset and
\* angle conventions
FullEnumerationConventions ==
    { conventionOfSlot(ConventionOffset_allConventions,
                       ConventionAngle_allConventions, k) :
          k \in 1..(2 * Len(ConventionOffset_allConventions)
                      * Len(ConventionAngle_allConventions)) }

\* the two calls of conventionOrientationsFor in main
ConOriCalls ==
    { << appBoxConOffs, appConAngs, appBoxOris >>,
      << indConOffs, appConAngs, appIndOris >> }

\* C30: the id sequence of conventionOrientationPairsFor depends on conOffs
\* and conAngs only, never on the ParmGroup: angle convention outermost,
\* offset convention next, TranRot before RotTran; it has the length
\* 2*|conOffs|*|conAngs| and no id twice; with the full enumerations the ids
\* are the numberEncoding() values of Convention::allConventions() (the
\* conventions of the slots are those of allConventions()). So the vectors
\* of all sensors are slot-aligned
C30_IdSequence ==
    (app = "OriAnalysis2" /\ apc = "oriented")
        => /\ \A call \in ConOriCalls :
                 LET conOffs == call[1]
                     conAngs == call[2]
                     conOris == call[3]
                 IN  \A key \in DOMAIN conOris :
                        /\ Len(conOris[key]) = 2 * Len(conOffs) * Len(conAngs)
                        /\ \A k \in DOMAIN conOris[key] :
                              conOris[key][k].first =
                                  numberEncoding(conventionOfSlot(conOffs, conAngs, k))
                        /\ \A i \in DOMAIN conOris[key] :
                              \A j \in DOMAIN conOris[key] :
                                 i # j => conOris[key][i].first # conOris[key][j].first
                        /\ \A other \in DOMAIN conOris :
                              \A i \in DOMAIN conOris[key] :
                                 conOris[other][i].first = conOris[key][i].first
           /\ FullEnumerationConventions = ConventionSet

\* three sensors, two of them with different parameters and different
\* orientations in the first slot
C30_Witness ==
    /\ app = "OriAnalysis2"
    /\ apc = "oriented"
    /\ Cardinality(DOMAIN appBoxOris) = 3
    /\ appBoxPGs[1] # appBoxPGs[2]
    /\ appBoxOris[1][1].second # appBoxOris[2][1].second
    /\ appBoxOris[1][1].first = appBoxOris[2][1].first
    /\ Len(appBoxOris[1]) = 8

====
